---- MODULE Spec2Model ----
(***************************************************************************)
(* Model of the summary pipeline of summary_bot:                           *)
(*   - Summarizer (src/summarizer.py): generate_multi_channel_summary,     *)
(*     generate_summary, _hierarchical_selection, _select_top_posts;       *)
(*   - fix_html_tags / _strip_html_tags (src/bot/helpers.py);              *)
(*   - send_long_message (src/bot/helpers.py);                             *)
(*   - the handlers that deliver a digest: cmd_manual_summary              *)
(*     (src/bot/commands.py), _generate_summary_callback                   *)
(*     (src/bot/callbacks.py), send_scheduled_summaries (src/bot/core.py); *)
(*   - read_channel_messages (src/client.py) and _format_messages          *)
(*     (src/summarizer.py);                                                *)
(*   - the per-request log file of a summary request (callbacks.py,        *)
(*     core.py, helpers.py);                                               *)
(*   - the loop of send_scheduled_summaries over the users that are due;   *)
(*   - the channel-name input state (callbacks.py, src/bot/messages.py).   *)
(* A message record is identified by its position in the list the channel  *)
(* reader returned (1..n); a list of records is a sequence of positions.   *)
(***************************************************************************)
EXTENDS Integers, Sequences, FiniteSets, TLC

(* ---------------------------------------------------------------------- *)
(* Program constants and model bounds                                      *)
(* ---------------------------------------------------------------------- *)

\* max_count passed by _hierarchical_selection to _select_top_posts
MaxCount == 10
\* base-case limit of _hierarchical_selection (len(messages) <= 30)
BaseLimit == 30
\* chunk_size of _hierarchical_selection
ChunkSize == 30

\* largest message list given to _hierarchical_selection called directly
MaxN == 92
\* largest message list given to generate_summary called directly
MaxSingleN == 12
\* largest number of channels given to generate_multi_channel_summary
MaxSources == 2

ChannelNames == <<"chA", "chB", "chC", "chD">>

Min(a, b) == IF a <= b THEN a ELSE b

Range(s) == {s[i] : i \in 1..Len(s)}

Iota(n) == [i \in 1..n |-> i]

Take(s, k) == SubSeq(s, 1, Min(k, Len(s)))

(* ---------------------------------------------------------------------- *)
(* The model (LLM) call and its outcomes                                   *)
(* ---------------------------------------------------------------------- *)

\* Ways a requests.post round trip can end.  "ok" carries the integers that
\* re.findall(r'\d+') finds in the completion text (ranking) or a text
\* (synthesis); "network" is a RequestException raised by requests.post,
\* "status" the HTTPError of raise_for_status, "notjson" a body that
\* response.json() cannot decode (requests' JSONDecodeError, a
\* RequestException), "nochoices" a decoded body without
\* ['choices'][0]['message']['content'] (KeyError / IndexError / TypeError).
FailKinds == {"network", "status", "notjson", "nochoices"}

\* The failures that are instances of requests.exceptions.RequestException
RequestExceptions == {"network", "status", "notjson"}

\* Completions of a ranking call over n records, as the list of integers
\* found in the text: none, only out-of-range, a reversed pair, repeats,
\* every index (more than max_count), out-of-range ones followed by
\* max_count valid ones in descending order.
Responses(n) ==
    { <<>>,
      <<0, n + 1>>,
      <<n, 1>>,
      <<2, 2, 2>>,
      Iota(n),
      <<0, n + 1>> \o [i \in 1..MaxCount |-> n + 1 - i] }

RankOutcomes(n) ==
    {[kind |-> k, numbers |-> <<>>] : k \in FailKinds}
        \cup {[kind |-> "ok", numbers |-> r] : r \in Responses(n)}

NoCall == [kind |-> "nocall", numbers |-> <<>>]

(* ---------------------------------------------------------------------- *)
(* Summarizer._select_top_posts                                            *)
(* ---------------------------------------------------------------------- *)

\* selected_indices: 0-based indices of the in-range numbers, first max_count
SelectedIndices(numbers, n, max_count) ==
    LET valid == SelectSeq(numbers, LAMBDA x : 1 <= x /\ x <= n)
        cut   == Take(valid, max_count)
    IN  [i \in 1..Len(cut) |-> cut[i] - 1]

\* what one invocation does: the list it returns, the model calls it issues,
\* whether an exception leaves it
Ranked(res, calls) == [res |-> res, calls |-> calls, raised |-> FALSE]

SelectTopPostsNoTruncation(messages, max_count, out) ==
    IF Len(messages) <= max_count THEN Ranked(messages, 0)
    ELSE IF out.kind # "ok" THEN Ranked(messages, 1)
    ELSE LET n   == Len(messages)
             idx == SelectSeq(out.numbers, LAMBDA x : 1 <= x /\ x <= n)
         IN  IF idx = <<>> THEN Ranked(messages, 1)
             ELSE Ranked([i \in 1..Len(idx) |-> messages[idx[i]]], 1)

SelectTopPostsStrictShortCircuit(messages, max_count, out) ==
    IF Len(messages) < max_count THEN Ranked(messages, 0)
    ELSE IF out.kind # "ok" THEN Ranked(Take(messages, max_count), 1)
    ELSE LET n    == Len(messages)
             idx  == SelectedIndices(out.numbers, n, max_count)
             sel  == IF idx = <<>>
                     THEN [i \in 1..Min(max_count, n) |-> i - 1]
                     ELSE idx
         IN  Ranked([i \in 1..Len(sel) |-> messages[sel[i] + 1]], 1)

SelectTopPostsNarrowExcept(messages, max_count, out) ==
    IF Len(messages) <= max_count THEN Ranked(messages, 0)
    ELSE IF out.kind \in RequestExceptions THEN Ranked(Take(messages, max_count), 1)
    ELSE IF out.kind # "ok" THEN [res |-> <<>>, calls |-> 1, raised |-> TRUE]
    ELSE LET n    == Len(messages)
             idx  == SelectedIndices(out.numbers, n, max_count)
             sel  == IF idx = <<>>
                     THEN [i \in 1..Min(max_count, n) |-> i - 1]
                     ELSE idx
         IN  Ranked([i \in 1..Len(sel) |-> messages[sel[i] + 1]], 1)

SelectTopPostsReturnsPositions(messages, max_count, out) ==
    IF Len(messages) <= max_count THEN Ranked(messages, 0)
    ELSE IF out.kind # "ok" THEN Ranked(Take(messages, max_count), 1)
    ELSE LET n    == Len(messages)
             idx  == SelectedIndices(out.numbers, n, max_count)
             sel  == IF idx = <<>>
                     THEN [i \in 1..Min(max_count, n) |-> i - 1]
                     ELSE idx
             kept == SelectSeq(sel, LAMBDA i : i < n)
         IN  Ranked([i \in 1..Len(kept) |-> kept[i] + 1], 1)

SelectTopPostsFallbackKeepsLast(messages, max_count, out) ==
    LET n    == Len(messages)
        last == SubSeq(messages, n - Min(max_count, n) + 1, n)
    IN  IF n <= max_count THEN Ranked(messages, 0)
        ELSE IF out.kind # "ok" THEN Ranked(last, 1)
        ELSE LET idx  == SelectedIndices(out.numbers, n, max_count)
                 kept == SelectSeq(idx, LAMBDA i : i < n)
             IN  IF idx = <<>> THEN Ranked(last, 1)
                 ELSE Ranked([i \in 1..Len(kept) |-> messages[kept[i] + 1]], 1)

SelectTopPostsTruncatesBeforeFilter(messages, max_count, out) ==
    IF Len(messages) <= max_count THEN Ranked(messages, 0)
    ELSE IF out.kind # "ok" THEN Ranked(Take(messages, max_count), 1)
    ELSE LET n    == Len(messages)
             cut  == Take(out.numbers, max_count)
             ok   == SelectSeq(cut, LAMBDA x : 1 <= x /\ x <= n)
             idx  == [i \in 1..Len(ok) |-> ok[i] - 1]
             sel  == IF idx = <<>>
                     THEN [i \in 1..Min(max_count, n) |-> i - 1]
                     ELSE idx
             kept == SelectSeq(sel, LAMBDA i : i < n)
         IN  Ranked([i \in 1..Len(kept) |-> messages[kept[i] + 1]], 1)

\* _select_top_posts(messages, channel_name, max_count) when the model call,
\* if one is issued, ends as out.  Everything after requests.post is inside
\* try / except Exception, so no outcome raises.
SelectTopPosts(messages, max_count, out) ==
    IF Len(messages) <= max_count THEN Ranked(messages, 0)
    ELSE IF out.kind # "ok" THEN Ranked(Take(messages, max_count), 1)
    ELSE LET n    == Len(messages)
             idx  == SelectedIndices(out.numbers, n, max_count)
             sel  == IF idx = <<>>
                     THEN [i \in 1..Min(max_count, n) |-> i - 1]
                     ELSE idx
             kept == SelectSeq(sel, LAMBDA i : i < n)
         IN  Ranked([i \in 1..Len(kept) |-> messages[kept[i] + 1]], 1)

(* ---------------------------------------------------------------------- *)
(* State of one summary generation                                         *)
(* ---------------------------------------------------------------------- *)

VARIABLES
    entry,        \* the function called: "reduce" _hierarchical_selection, "single" generate_summary, "multi" generate_multi_channel_summary
    channels,     \* channels_messages: the ordered mapping, as a sequence of [name, msgs]
    pc,           \* position of the call: "entry", "loop", "select", "synth", "done", "raised"
    ci,           \* index of the channel the for loop of generate_multi_channel_summary is at
    level,        \* messages argument of the current _hierarchical_selection frame
    depth,        \* depth argument of the current _hierarchical_selection frame
    chunkNo,      \* number of the next chunk to rank in the current frame
    selected,     \* selected_from_chunks of the current frame
    candidates,   \* selected_messages of generate_summary
    summaries,    \* summaries list of generate_multi_channel_summary
    result,       \* value returned (or exception raised) to the caller
    modelCalls,   \* requests.post calls issued so far
    rankerCalls,  \* _select_top_posts invocations of the current _hierarchical_selection
    lastRank,     \* the last _select_top_posts invocation: input, outcome, result, model calls, raised or not
    lastSynth,    \* the last synthesis call: channel and outcome
    frames,       \* the _hierarchical_selection frames of the current call, outermost first: [input, ranks], ranks the _select_top_posts invocations of the frame as [input, res, calls, fell]
    callLog,      \* the requests.post calls issued so far, in order, as [src, kind]: index of the channel, "rank" or "synth"
    \* fix_html_tags
    text,         \* the text argument, a sequence of tokens
    fixed,        \* the text returned
    rpc,          \* "idle", "call" (called, not yet returned), "done"
    \* send_long_message
    parts,        \* text.split("─" * 50): the sections of the document, each [id, len]
    partNo,       \* position of the for loop over parts
    current_part, \* the chunk being accumulated
    sent,         \* the blocks passed to update.message.reply_text, in order
    cpc,          \* "idle", "call", "loop", "flush", "done", "raised"
    \* the handlers that deliver a digest
    path,         \* "command" cmd_manual_summary, "callback" _generate_summary_callback, "scheduled" send_scheduled_summaries (one user)
    hpc,          \* position of the handler
    doc,          \* the handler's variable summary, a sequence of tokens
    queue,        \* the parts the handler's for loop over parts has still to send
    calls,        \* the reply_text / send_message calls the handler made itself, in order: [text, parse_mode, downgraded, ok]
    steps,        \* the calls of the handler so far, by name, in order
    fentry,       \* the function called: "read" read_channel_messages and then _format_messages as generate_summary calls it, "format" _format_messages alone
    feed,         \* the messages iter_messages yields, newest first, as [id, age, text, views]
    recs,         \* the list of message records (dicts) read_channel_messages returns and _format_messages is called with
    include_links, \* the include_links argument of _format_messages
    formatted,    \* the entries _format_messages joins, in order
    fpc,          \* "idle", "read", "format", "done"
    lpc,          \* where each summary request stands in its logging scope
    summarizer_level, \* logging.getLogger('bot.summarizer').level
    client_level, \* logging.getLogger('client').level
    summarizer_handlers, \* the requests whose file_handler is attached to the summarizer logger
    client_handlers, \* the requests whose file_handler is attached to the client logger
    original_levels, \* original_summarizer_level and original_client_level of each request
    created,      \* the requests whose create_summary_logger call returned
    closed,       \* the requests whose file_handler is closed
    files,        \* for each request's log file, the records it holds
    users,        \* the rows get_users_for_summary returned, as [user_id, channels]
    ui,           \* position of the for loop over users
    jpc,          \* position inside send_scheduled_summaries
    last_summary, \* users.last_summary of each user in the database
    model_calls,  \* generate_multi_channel_summary calls made for each user
    processed,    \* the user_ids whose iteration has begun, in order
    finished,     \* how each iteration ended, in order
    success_count, \* success_count
    error_count,  \* error_count
    user_states,  \* self.bot.user_states, the dict {user_id: 'waiting_channel_name'}
    db_channels,  \* the channels table: for each user the channel_usernames tracked
    input_pc,     \* for each user, where the handle_text_message call that took the waiting branch stands
    update        \* the update dispatched in the step just taken, none for a step that resumes a handler

svars == <<entry, channels, pc, ci, level, depth, chunkNo, selected, candidates,
           summaries, result, modelCalls, rankerCalls, lastRank, lastSynth,
           frames, callLog>>

rvars == <<text, fixed, rpc>>

cvars == <<parts, partNo, current_part, sent, cpc>>

hvars == <<path, hpc, doc, queue, calls, steps>>

fvars == <<fentry, feed, recs, include_links, formatted, fpc>>

lvars == <<lpc, summarizer_level, client_level, summarizer_handlers, client_handlers, original_levels, created, closed, files>>

jvars == <<users, ui, jpc, last_summary, model_calls, processed, finished, success_count, error_count>>

uvars == <<user_states, db_channels, input_pc, update>>

vars == <<svars, rvars, cvars, hvars, fvars, lvars, jvars, uvars>>

NoText == [kind |-> "none"]

NoRank == [input |-> <<>>, out |-> NoCall, res |-> <<>>, calls |-> 0, raised |-> FALSE]

NoSynth == [src |-> "", out |-> "none"]

\* _hierarchical_selection: the list of records returned
Records(posts) == [kind |-> "records", posts |-> posts]

\* an exception that leaves the called function
Raised(name, e) == [kind |-> "exception", src |-> name, err |-> e]

\* generate_summary: "Нет новых сообщений в канале {channel_name}."
NoMessagesText(name) == [kind |-> "noMessages", src |-> name]

\* generate_summary: "❌ Ошибка при генерации саммари для {channel_name}: {e}"
ErrorText(name, e) == [kind |-> "error", src |-> name, err |-> e]

\* generate_summary: the stripped completion of the synthesis call
SummaryText(name, posts) == [kind |-> "summary", src |-> name, posts |-> posts]

\* generate_multi_channel_summary: "Нет новых сообщений ни в одном из отслеживаемых каналов."
NoChannelsText == [kind |-> "noChannels"]

\* generate_multi_channel_summary: body of the section of a channel without messages
NoNewText == [kind |-> "noNew"]

\* generate_multi_channel_summary: "📢 <b>{safe_channel_name}</b>\n\n{summary}"
Section(name, body) == [header |-> name, body |-> body]

\* generate_multi_channel_summary: the sections joined by the separator line
Joined(sections) == [kind |-> "joined", sections |-> sections]

\* message-list sizes of the channels of a multi-channel request
MultiSizes == {0, 3, MaxCount + 1, BaseLimit + 1}

Channel(i, n) == [name |-> ChannelNames[i], msgs |-> Iota(n)]

\* no summary generation is going on
IdleSummarizer ==
    /\ entry = "none"
    /\ channels = <<>>
    /\ pc = "idle"
    /\ ci = 1
    /\ level = <<>>
    /\ depth = 0
    /\ chunkNo = 1
    /\ selected = <<>>
    /\ candidates = <<>>
    /\ summaries = <<>>
    /\ result = NoText
    /\ modelCalls = 0
    /\ rankerCalls = 0
    /\ lastRank = NoRank
    /\ lastSynth = NoSynth
    /\ frames = <<>>
    /\ callLog = <<>>

InitSummarizer ==
    /\ \/ /\ entry = "reduce"
          /\ \E n \in 0..MaxN : channels = <<Channel(1, n)>>
       \/ /\ entry = "single"
          /\ \E n \in 0..MaxSingleN : channels = <<Channel(1, n)>>
       \/ /\ entry = "multi"
          /\ \E k \in 0..MaxSources :
                \E sizes \in [1..k -> MultiSizes] :
                    channels = [i \in 1..k |-> Channel(i, sizes[i])]
    /\ pc = "entry"
    /\ ci = 1
    /\ level = <<>>
    /\ depth = 0
    /\ chunkNo = 1
    /\ selected = <<>>
    /\ candidates = <<>>
    /\ summaries = <<>>
    /\ result = NoText
    /\ modelCalls = 0
    /\ rankerCalls = 0
    /\ lastRank = NoRank
    /\ lastSynth = NoSynth
    /\ frames = <<>>
    /\ callLog = <<>>

(* ---------------------------------------------------------------------- *)
(* Summarizer._hierarchical_selection                                      *)
(* ---------------------------------------------------------------------- *)

\* a call self._hierarchical_selection(msgs, channel_name) with depth 0
EnterSelection(msgs) ==
    /\ level' = msgs
    /\ depth' = 0
    /\ chunkNo' = 1
    /\ selected' = <<>>
    /\ candidates' = <<>>
    /\ rankerCalls' = 0
    /\ lastRank' = NoRank
    /\ frames' = <<[input |-> msgs, ranks |-> <<>>]>>
    /\ pc' = "select"

ReduceCall ==
    /\ pc = "entry"
    /\ entry = "reduce"
    /\ EnterSelection(channels[1].msgs)
    /\ UNCHANGED <<entry, channels, ci, summaries, result, modelCalls, lastSynth,
                   callLog>>
    /\ UNCHANGED <<rvars, cvars, hvars, fvars, lvars, jvars, uvars>>

NumChunksRoundsDown(msgs) == Len(msgs) \div ChunkSize

\* chunks = [messages[i:i + chunk_size] for i in range(0, len(messages), chunk_size)]
NumChunks(msgs) == (Len(msgs) + ChunkSize - 1) \div ChunkSize

ChunkAtOverlaps(msgs, j) ==
    SubSeq(msgs, IF j = 1 THEN 1 ELSE (j - 1) * ChunkSize,
           Min(j * ChunkSize, Len(msgs)))

ChunkAt(msgs, j) ==
    SubSeq(msgs, (j - 1) * ChunkSize + 1, Min(j * ChunkSize, Len(msgs)))

\* the model call of an invocation on batch was issued and ended as out, and
\* the except clause or "if not selected_indices" replaced its answer
FellBack(batch, out) ==
    \/ out.kind # "ok"
    \/ SelectedIndices(out.numbers, Len(batch), MaxCount) = <<>>

\* the bookkeeping of one _select_top_posts invocation on batch that did r
Rank(batch, out, r) ==
    /\ frames' = [frames EXCEPT ![Len(frames)].ranks =
                     Append(@, [input |-> batch,
                                res   |-> r.res,
                                calls |-> r.calls,
                                fell  |-> r.calls = 1 /\ FellBack(batch, out)])]
    /\ callLog' = IF r.calls = 0 THEN callLog
                  ELSE Append(callLog, [src |-> ci, kind |-> "rank"])
    /\ lastRank' = [input |-> batch,
                    out   |-> IF r.calls = 0 THEN NoCall ELSE out,
                    res   |-> r.res,
                    calls |-> r.calls,
                    raised |-> r.raised]
    /\ rankerCalls' = rankerCalls + 1
    /\ modelCalls' = modelCalls + r.calls

\* an exception of _select_top_posts would leave every enclosing call
RankRaised(out) ==
    /\ pc' = "raised"
    /\ result' = Raised(channels[ci].name, out.kind)

\* base case: return self._select_top_posts(messages, channel_name, max_count=10)
SelectBase ==
    /\ pc = "select"
    /\ Len(level) <= BaseLimit
    /\ \E out \in RankOutcomes(Len(level)) :
          LET r == SelectTopPosts(level, MaxCount, out)
          IN  /\ Rank(level, out, r)
              /\ IF r.raised
                 THEN /\ RankRaised(out)
                      /\ UNCHANGED candidates
                 ELSE /\ candidates' = r.res
                      /\ IF entry = "reduce"
                         THEN /\ pc' = "done"
                              /\ result' = Records(r.res)
                         ELSE /\ pc' = "synth"
                              /\ UNCHANGED result
    /\ UNCHANGED <<entry, channels, ci, level, depth, chunkNo, selected,
                   summaries, lastSynth>>
    /\ UNCHANGED <<rvars, cvars, hvars, fvars, lvars, jvars, uvars>>

\* recursive case, one iteration of the loop over chunks
SelectChunk ==
    /\ pc = "select"
    /\ Len(level) > BaseLimit
    /\ chunkNo <= NumChunks(level)
    /\ LET chunk == ChunkAt(level, chunkNo)
       IN  \E out \in RankOutcomes(Len(chunk)) :
              LET r == SelectTopPosts(chunk, MaxCount, out)
              IN  /\ Rank(chunk, out, r)
                  /\ IF r.raised
                     THEN /\ RankRaised(out)
                          /\ UNCHANGED <<selected, chunkNo>>
                     ELSE /\ selected' = selected \o r.res
                          /\ chunkNo' = chunkNo + 1
                          /\ UNCHANGED <<pc, result>>
    /\ UNCHANGED <<entry, channels, ci, level, depth, candidates,
                   summaries, lastSynth>>
    /\ UNCHANGED <<rvars, cvars, hvars, fvars, lvars, jvars, uvars>>

\* return self._hierarchical_selection(selected_from_chunks, channel_name, depth + 1)
Recurse ==
    /\ pc = "select"
    /\ Len(level) > BaseLimit
    /\ chunkNo > NumChunks(level)
    /\ level' = selected
    /\ depth' = depth + 1
    /\ chunkNo' = 1
    /\ selected' = <<>>
    /\ frames' = Append(frames, [input |-> selected, ranks |-> <<>>])
    /\ UNCHANGED <<entry, channels, pc, ci, candidates, summaries, result,
                   modelCalls, rankerCalls, lastRank, lastSynth, callLog>>
    /\ UNCHANGED <<rvars, cvars, hvars, fvars, lvars, jvars, uvars>>

(* ---------------------------------------------------------------------- *)
(* Summarizer.generate_summary                                             *)
(* ---------------------------------------------------------------------- *)

ReturnSummaryPrepends(summary) ==
    IF entry = "single"
    THEN /\ result' = summary
         /\ pc' = "done"
         /\ UNCHANGED <<ci, summaries>>
    ELSE /\ summaries' = <<Section(channels[ci].name, summary)>> \o summaries
         /\ ci' = ci + 1
         /\ pc' = "loop"
         /\ UNCHANGED result

\* generate_summary returns text to its caller
ReturnSummary(summary) ==
    IF entry = "single"
    THEN /\ result' = summary
         /\ pc' = "done"
         /\ UNCHANGED <<ci, summaries>>
    ELSE /\ summaries' = Append(summaries, Section(channels[ci].name, summary))
         /\ ci' = ci + 1
         /\ pc' = "loop"
         /\ UNCHANGED result

\* generate_summary(messages, channel_name) up to the selection: the empty
\* short-circuit returns at once, otherwise _hierarchical_selection starts
SummaryCall(name, msgs) ==
    IF msgs = <<>>
    THEN /\ ReturnSummary(NoMessagesText(name))
         /\ UNCHANGED <<level, depth, chunkNo, selected, candidates,
                        rankerCalls, lastRank, frames>>
    ELSE /\ EnterSelection(msgs)
         /\ UNCHANGED <<ci, summaries, result>>

SingleCall ==
    /\ pc = "entry"
    /\ entry = "single"
    /\ SummaryCall(channels[1].name, channels[1].msgs)
    /\ UNCHANGED <<entry, channels, modelCalls, lastSynth, callLog>>
    /\ UNCHANGED <<rvars, cvars, hvars, fvars, lvars, jvars, uvars>>

\* outcomes of the synthesis call
SynthOutcomes == {"ok"} \cup FailKinds

\* the failures the except clause of generate_summary handles
SynthHandled == RequestExceptions

\* the try block of generate_summary: one requests.post, then the completion
\* is returned, a handled failure becomes the error notice, any other
\* exception leaves generate_summary and its caller
Synthesize ==
    /\ pc = "synth"
    /\ modelCalls' = modelCalls + 1
    /\ callLog' = Append(callLog, [src |-> ci, kind |-> "synth"])
    /\ \E o \in SynthOutcomes :
          LET name == channels[ci].name
          IN  /\ lastSynth' = [src |-> name, out |-> o]
              /\ IF o = "ok"
                 THEN ReturnSummary(SummaryText(name, candidates))
                 ELSE IF o \in SynthHandled
                 THEN ReturnSummary(ErrorText(name, o))
                 ELSE /\ pc' = "raised"
                      /\ result' = Raised(name, o)
                      /\ UNCHANGED <<ci, summaries>>
    /\ UNCHANGED <<entry, channels, level, depth, chunkNo, selected, candidates,
                   rankerCalls, lastRank, frames>>
    /\ UNCHANGED <<rvars, cvars, hvars, fvars, lvars, jvars, uvars>>

(* ---------------------------------------------------------------------- *)
(* Summarizer.generate_multi_channel_summary                               *)
(* ---------------------------------------------------------------------- *)

MultiStart ==
    /\ pc = "entry"
    /\ entry = "multi"
    /\ IF channels = <<>>
       THEN /\ result' = NoChannelsText
            /\ pc' = "done"
       ELSE /\ pc' = "loop"
            /\ UNCHANGED result
    /\ UNCHANGED <<entry, channels, ci, level, depth, chunkNo, selected,
                   candidates, summaries, modelCalls, rankerCalls, lastRank,
                   lastSynth, frames, callLog>>
    /\ UNCHANGED <<rvars, cvars, hvars, fvars, lvars, jvars, uvars>>

MultiChannelNoEmptyCheck ==
    /\ pc = "loop"
    /\ ci <= Len(channels)
    /\ EnterSelection(channels[ci].msgs)
    /\ UNCHANGED <<ci, summaries, result>>
    /\ UNCHANGED <<entry, channels, modelCalls, lastSynth, callLog>>
    /\ UNCHANGED <<rvars, cvars, hvars, fvars, lvars, jvars, uvars>>

\* one iteration of the for loop over channels_messages.items()
MultiChannel ==
    /\ pc = "loop"
    /\ ci <= Len(channels)
    /\ IF channels[ci].msgs # <<>>
       THEN SummaryCall(channels[ci].name, channels[ci].msgs)
       ELSE /\ summaries' = Append(summaries, Section(channels[ci].name, NoNewText))
            /\ ci' = ci + 1
            /\ UNCHANGED <<pc, level, depth, chunkNo, selected, candidates,
                           rankerCalls, lastRank, result, frames>>
    /\ UNCHANGED <<entry, channels, modelCalls, lastSynth, callLog>>
    /\ UNCHANGED <<rvars, cvars, hvars, fvars, lvars, jvars, uvars>>

\* return ("\n\n" + "─" * 50 + "\n\n").join(summaries)
MultiJoin ==
    /\ pc = "loop"
    /\ ci > Len(channels)
    /\ result' = Joined(summaries)
    /\ pc' = "done"
    /\ UNCHANGED <<entry, channels, ci, level, depth, chunkNo, selected,
                   candidates, summaries, modelCalls, rankerCalls, lastRank,
                   lastSynth, frames, callLog>>
    /\ UNCHANGED <<rvars, cvars, hvars, fvars, lvars, jvars, uvars>>

NextSummarizer ==
    \/ ReduceCall
    \/ SelectBase
    \/ SelectChunk
    \/ Recurse
    \/ SingleCall
    \/ Synthesize
    \/ MultiStart
    \/ MultiChannel
    \/ MultiJoin

(* ---------------------------------------------------------------------- *)
(* Texts with link markup, as token sequences                              *)
(* ---------------------------------------------------------------------- *)

\* A text is a sequence of tokens, each standing for the characters written:
\* "<a " (the tag name and the white space \s+ after it), "href=", "'" (a
\* quote of either kind), ">", "</a>", and plain characters "x", "u", " (",
\* ")".  Only "<a " and "</a>" hold a '<', only "'" holds a quote.
Quote == "'"

CloseTag == "</a>"

\* "⚠️ Ссылки предоставлены в текстовом формате\n\n"
Disclaimer == "[links as text]"

\* a well-formed opening tag <a href='u'>
OpenTag == <<"<a ", "href=", Quote, "u", Quote, ">">>

\* the pieces input texts are built from
\* the start of an opening tag with a closing tag written inside it: <a </a>href=
BrokenOpen == <<"<a ", CloseTag, "href=">>

Pieces == {OpenTag, BrokenOpen, <<CloseTag>>, <<"x">>, <<"<a ">>, <<"href=">>,
           <<Quote>>, <<">">>}

\* most pieces in an input text
MaxPieces == 5

RECURSIVE Flatten(_)
Flatten(ss) == IF ss = <<>> THEN <<>> ELSE Head(ss) \o Flatten(Tail(ss))

RECURSIVE NextQuote(_, _)
\* first position >= i holding a quote, 0 when there is none
NextQuote(t, i) ==
    IF i > Len(t) THEN 0
    ELSE IF t[i] = Quote THEN i
    ELSE NextQuote(t, i + 1)

\* r'<a\s+href=["\']([^"\']+)["\']>' matched at position i: the position of
\* the closing '>', 0 when the pattern does not match there
MatchOpenEnd(t, i) ==
    IF i + 5 <= Len(t) /\ t[i] = "<a " /\ t[i + 1] = "href=" /\ t[i + 2] = Quote
    THEN LET j == NextQuote(t, i + 3)
         IN  IF j > i + 3 /\ j + 1 <= Len(t) /\ t[j + 1] = ">" THEN j + 1 ELSE 0
    ELSE 0

RECURSIVE FindOpening(_, _)
\* re.findall of the opening pattern from position i on: the non-overlapping
\* matches left to right, each as [start, end]
FindOpening(t, i) ==
    IF i > Len(t) THEN <<>>
    ELSE LET e == MatchOpenEnd(t, i)
         IN  IF e > 0
             THEN <<[start |-> i, end |-> e]>> \o FindOpening(t, e + 1)
             ELSE FindOpening(t, i + 1)

\* len(re.findall(r'<a\s+href=["\']([^"\']+)["\']>', text))
CountOpening(t) == Len(FindOpening(t, 1))

\* len(re.findall(r'</a>', text))
CountClosing(t) == Len(SelectSeq(t, LAMBDA tok : tok = CloseTag))

HasLt(tok) == tok \in {"<a ", CloseTag}

RECURSIVE LabelEnd(_, _)
\* ([^<]*) matched from position i: the position of its last token, i - 1
\* when it is empty
LabelEnd(t, i) ==
    IF i > Len(t) \/ HasLt(t[i]) THEN i - 1 ELSE LabelEnd(t, i + 1)

RECURSIVE SubOpening(_, _)
\* re.sub(r'<a\s+href=["\']([^"\']+)["\']>([^<]*)', r'\2 (\1)', text) from
\* position i on
SubOpening(t, i) ==
    IF i > Len(t) THEN <<>>
    ELSE LET e == MatchOpenEnd(t, i)
         IN  IF e = 0
             THEN <<t[i]>> \o SubOpening(t, i + 1)
             ELSE LET l     == LabelEnd(t, e + 1)
                      label == SubSeq(t, e + 1, l)
                      url   == SubSeq(t, i + 3, e - 2)
                  IN  label \o <<" (">> \o url \o <<")">> \o SubOpening(t, l + 1)

\* _strip_html_tags(text)
StripHtmlTags(t) ==
    LET links  == SubOpening(t, 1)
        noTags == SelectSeq(links, LAMBDA tok : tok # CloseTag)
    IN  <<Disclaimer>> \o noTags

Closings(n) == [i \in 1..n |-> CloseTag]

FixHtmlTagsInvertedValidation(t) ==
    IF t = <<>> THEN t
    ELSE LET unclosed_count == CountOpening(t) - CountClosing(t)
             padded == IF unclosed_count > 0 THEN t \o Closings(unclosed_count) ELSE t
         IN  IF CountOpening(padded) = CountClosing(padded)
             THEN StripHtmlTags(padded)
             ELSE padded

FixHtmlTagsPadsOpeningCount(t) ==
    IF t = <<>> THEN t
    ELSE LET unclosed_count == CountOpening(t) - CountClosing(t)
             padded == IF unclosed_count > 0 THEN t \o Closings(CountOpening(t)) ELSE t
         IN  IF CountOpening(padded) # CountClosing(padded)
             THEN StripHtmlTags(padded)
             ELSE padded

\* fix_html_tags(text).  The regular-expression calls of the try block raise
\* nothing on a str, so the except branch is never taken.
FixHtmlTags(t) ==
    IF t = <<>> THEN t
    ELSE LET unclosed_count == CountOpening(t) - CountClosing(t)
             padded == IF unclosed_count > 0 THEN t \o Closings(unclosed_count) ELSE t
         IN  IF CountOpening(padded) # CountClosing(padded)
             THEN StripHtmlTags(padded)
             ELSE padded

\* no fix_html_tags call is going on
IdleRepair ==
    /\ text = <<>>
    /\ fixed = <<>>
    /\ rpc = "idle"

InitRepair ==
    /\ \E n \in 0..MaxPieces :
          \E ps \in [1..n -> Pieces] : text = Flatten(ps)
    /\ fixed = <<>>
    /\ rpc = "call"

\* summary = fix_html_tags(summary)
FixCall ==
    /\ rpc = "call"
    /\ fixed' = FixHtmlTags(text)
    /\ rpc' = "done"
    /\ UNCHANGED <<text, svars, cvars, hvars, fvars, lvars, jvars, uvars>>

(* ---------------------------------------------------------------------- *)
(* send_long_message                                                       *)
(* ---------------------------------------------------------------------- *)

\* max_length of send_long_message
MaxLength == 4096
\* len("─" * 50)
SepLen == 50
\* the + 50 of the test len(current_part) + len(part) + 50 < max_length
FitMargin == 50
\* len("\n" + "─" * 50 + "\n"), what follows each part in a chunk
PadLen == 52

\* most sections in a document
MaxParts == 3

\* lengths of the sections of the documents tried
PartLens == {0, 10, 2000, MaxLength - PadLen, MaxLength - PadLen + 1,
             MaxLength - FitMargin, MaxLength + 4}

RECURSIVE SumLen(_)
SumLen(ps) == IF ps = <<>> THEN 0 ELSE Head(ps).len + SumLen(Tail(ps))

\* len(text) of the document whose split gives ps
TextLen(ps) == SumLen(ps) + SepLen * (Len(ps) - 1)

Ids(ps) == [i \in 1..Len(ps) |-> ps[i].id]

\* the empty current_part
EmptyChunk == [ids |-> <<>>, len |-> 0]

\* part + "\n" + "─" * 50 + "\n" appended to chunk c
Padded(c, part) == [ids |-> Append(c.ids, part.id), len |-> c.len + part.len + PadLen]

\* no send_long_message call is going on
IdleChunker ==
    /\ parts = <<>>
    /\ partNo = 1
    /\ current_part = EmptyChunk
    /\ sent = <<>>
    /\ cpc = "idle"

InitChunker ==
    /\ \E n \in 1..MaxParts :
          \E lens \in [1..n -> PartLens] :
              parts = [i \in 1..n |-> [id |-> i, len |-> lens[i]]]
    /\ partNo = 1
    /\ current_part = EmptyChunk
    /\ sent = <<>>
    /\ cpc = "call"

\* await update.message.reply_text(block, parse_mode='HTML'): the block is
\* passed to the delivery call, which returns or raises (Telegram rejects it)
Reply(block, next) ==
    /\ sent' = Append(sent, block)
    /\ \/ cpc' = next
       \/ cpc' = "raised"

\* if len(text) <= max_length: the whole text is one block
SendWhole ==
    /\ cpc = "call"
    /\ TextLen(parts) <= MaxLength
    /\ Reply([ids |-> Ids(parts), len |-> TextLen(parts)], "done")
    /\ UNCHANGED <<parts, partNo, current_part, svars, rvars, hvars, fvars, lvars, jvars, uvars>>

\* else: parts = text.split("─" * 50); current_part = ""
SendSplit ==
    /\ cpc = "call"
    /\ TextLen(parts) > MaxLength
    /\ cpc' = "loop"
    /\ UNCHANGED <<parts, partNo, current_part, sent, svars, rvars, hvars, fvars, lvars, jvars, uvars>>

SendPartDropsOverflow ==
    /\ cpc = "loop"
    /\ partNo <= Len(parts)
    /\ LET part == parts[partNo]
       IN  IF current_part.len + part.len + FitMargin < MaxLength
           THEN /\ current_part' = Padded(current_part, part)
                /\ UNCHANGED <<sent, cpc>>
           ELSE /\ IF current_part # EmptyChunk
                   THEN Reply(current_part, "loop")
                   ELSE UNCHANGED <<sent, cpc>>
                /\ current_part' = EmptyChunk
    /\ partNo' = partNo + 1
    /\ UNCHANGED <<parts, svars, rvars, hvars, fvars, lvars, jvars, uvars>>

\* one iteration of the for loop over parts.  When the flushing reply_text
\* raises, the assignment after it is not executed.
SendPart ==
    /\ cpc = "loop"
    /\ partNo <= Len(parts)
    /\ LET part == parts[partNo]
       IN  IF current_part.len + part.len + FitMargin < MaxLength
           THEN /\ current_part' = Padded(current_part, part)
                /\ UNCHANGED <<sent, cpc>>
           ELSE /\ IF current_part # EmptyChunk
                   THEN Reply(current_part, "loop")
                   ELSE UNCHANGED <<sent, cpc>>
                /\ current_part' = IF cpc' = "raised"
                                   THEN current_part
                                   ELSE Padded(EmptyChunk, part)
    /\ partNo' = partNo + 1
    /\ UNCHANGED <<parts, svars, rvars, hvars, fvars, lvars, jvars, uvars>>

\* after the loop: if current_part: reply_text(current_part)
SendRest ==
    /\ cpc = "loop"
    /\ partNo > Len(parts)
    /\ IF current_part # EmptyChunk
       THEN Reply(current_part, "done")
       ELSE /\ cpc' = "done"
            /\ UNCHANGED sent
    /\ UNCHANGED <<parts, partNo, current_part, svars, rvars, hvars, fvars, lvars, jvars, uvars>>

NextChunker ==
    \/ SendWhole
    \/ SendSplit
    \/ SendPart
    \/ SendRest

(* ---------------------------------------------------------------------- *)
(* The handlers that deliver a digest                                      *)
(* ---------------------------------------------------------------------- *)

\* "─" * 50, the line generate_multi_channel_summary joins the sections with
Separator == "SEP"

\* "📢 <b>{safe_channel_name}</b>\n\n" of the i-th section
Headers == <<"H1", "H2", "H3", "H4">>

\* "🤖 <b>Автоматическое саммари</b>\n\n"
ScheduledHeader == "AUTO"

\* most sections in a delivered document
MaxSections == 2

\* texts a synthesis call returns: without link, a link, an opening tag never
\* closed, a closing tag never opened, a closing tag before its opening tag
Bodies ==
    { <<"x">>,
      OpenTag \o <<"x", CloseTag>>,
      OpenTag \o <<"x">>,
      <<"x", CloseTag>>,
      <<CloseTag>> \o OpenTag \o <<"x">> }

RECURSIVE JoinSections(_, _)
\* the sections i.. of the document whose bodies are bs, joined by the separator
JoinSections(bs, i) ==
    IF i > Len(bs) THEN <<>>
    ELSE <<Headers[i]>> \o bs[i]
            \o (IF i < Len(bs) THEN <<Separator>> ELSE <<>>)
            \o JoinSections(bs, i + 1)

RECURSIVE SplitOn(_, _)
\* t.split(sep) for a token sequence t
SplitOn(t, sep) ==
    IF \A i \in 1..Len(t) : t[i] # sep THEN <<t>>
    ELSE LET i == CHOOSE k \in 1..Len(t) :
                      t[k] = sep /\ \A j \in 1..(k - 1) : t[j] # sep
         IN  <<SubSeq(t, 1, i - 1)>> \o SplitOn(SubSeq(t, i + 1, Len(t)), sep)

\* [p.strip() for p in summary.split("─" * 50) if p.strip()]
SplitParts(t) == SelectSeq(SplitOn(t, Separator), LAMBDA p : p # <<>>)

\* outcomes of a delivery call: accepted, BadRequest "Can't parse entities"
\* (only with parse_mode='HTML'), any other exception
SendOutcomes(parse_mode) ==
    IF parse_mode = "HTML" THEN {"ok", "parse", "other"} ELSE {"ok", "other"}

\* no handler is running
IdleHandler ==
    /\ path = "none"
    /\ hpc = "idle"
    /\ doc = <<>>
    /\ queue = <<>>
    /\ calls = <<>>
    /\ steps = <<>>

\* a handler is about to call generate_multi_channel_summary, which is going
\* to return doc
InitHandler ==
    /\ path \in {"command", "callback", "scheduled"}
    /\ \E n \in 1..MaxSections :
          \E bs \in [1..n -> Bodies] : doc = JoinSections(bs, 1)
    /\ hpc = "generate"
    /\ queue = <<>>
    /\ calls = <<>>
    /\ steps = <<>>

\* a reply_text / send_message call of the handler with the given text
Send(t, parse_mode, o) ==
    calls' = Append(calls, [text        |-> t,
                            parse_mode  |-> parse_mode,
                            downgraded  |-> doc # <<>> /\ doc[1] = Disclaimer,
                            ok          |-> o = "ok"])

\* cmd_manual_summary: summary = generate_multi_channel_summary(...);
\* update_last_summary(user_id).  An exception of the generation leaves the
\* handler.
CmdGenerate ==
    /\ path = "command"
    /\ hpc = "generate"
    /\ \/ /\ steps' = steps \o <<"generate_multi_channel_summary", "update_last_summary">>
          /\ hpc' = "send"
       \/ /\ steps' = Append(steps, "generate_multi_channel_summary")
          /\ hpc' = "raised"
    /\ UNCHANGED <<path, doc, queue, calls>>
    /\ UNCHANGED <<svars, rvars, cvars, fvars, lvars, jvars, uvars>>

\* cmd_manual_summary: await send_long_message(update, summary), the summary
\* being a text whose sections have the lengths lens
CmdSend ==
    /\ path = "command"
    /\ hpc = "send"
    /\ steps' = Append(steps, "send_long_message")
    /\ hpc' = "chunker"
    /\ LET n == Len(SplitOn(doc, Separator))
       IN  \E lens \in [1..n -> PartLens] :
              parts' = [i \in 1..n |-> [id |-> i, len |-> lens[i]]]
    /\ partNo' = 1
    /\ current_part' = EmptyChunk
    /\ sent' = <<>>
    /\ cpc' = "call"
    /\ UNCHANGED <<path, doc, queue, calls>>
    /\ UNCHANGED <<svars, rvars, fvars, lvars, jvars, uvars>>

\* cmd_manual_summary: send_long_message has returned or raised; await msg.delete()
CmdReturn ==
    /\ path = "command"
    /\ hpc = "chunker"
    /\ cpc \in {"done", "raised"}
    /\ IF cpc = "done"
       THEN /\ steps' = Append(steps, "delete")
            /\ hpc' = "done"
       ELSE /\ hpc' = "raised"
            /\ UNCHANGED steps
    /\ UNCHANGED <<path, doc, queue, calls>>
    /\ UNCHANGED <<svars, rvars, cvars, fvars, lvars, jvars, uvars>>

\* _generate_summary_callback: create_summary_logger, the try block with the
\* generation and update_last_summary, then query.message.delete().  An
\* exception of create_summary_logger or of the try block leaves the handler.
CallbackGenerate ==
    /\ path = "callback"
    /\ hpc = "generate"
    /\ \/ /\ steps' = steps \o <<"generate_multi_channel_summary",
                                 "update_last_summary", "delete">>
          /\ hpc' = "fix"
       \/ /\ steps' = Append(steps, "generate_multi_channel_summary")
          /\ hpc' = "raised"
    /\ UNCHANGED <<path, doc, queue, calls>>
    /\ UNCHANGED <<svars, rvars, cvars, fvars, lvars, jvars, uvars>>

\* _generate_summary_callback: summary = fix_html_tags(summary)
CallbackFix ==
    /\ path = "callback"
    /\ hpc = "fix"
    /\ doc' = FixHtmlTags(doc)
    /\ steps' = Append(steps, "fix_html_tags")
    /\ hpc' = "test"
    /\ UNCHANGED <<path, queue, calls>>
    /\ UNCHANGED <<svars, rvars, cvars, fvars, lvars, jvars, uvars>>

\* where a delivery call of the try block that ended as o leaves the handler
AfterSend(o, next) ==
    hpc' = IF o = "ok" THEN next
           ELSE IF o = "parse" THEN "fallback"
           ELSE "raised"

\* _generate_summary_callback: if len(summary) <= max_length: one reply_text
\* with parse_mode='HTML'.  The length of the text is not part of the model,
\* the test can go either way.
CallbackSendWhole ==
    /\ path = "callback"
    /\ hpc = "test"
    /\ steps' = steps \o <<"split", "reply_text">>
    /\ \E o \in SendOutcomes("HTML") :
          /\ Send(doc, "HTML", o)
          /\ AfterSend(o, "done")
    /\ UNCHANGED <<path, doc, queue>>
    /\ UNCHANGED <<svars, rvars, cvars, fvars, lvars, jvars, uvars>>

\* _generate_summary_callback: else: parts = [p.strip() for p in
\* summary.split("─" * 50) if p.strip()]
CallbackSplit ==
    /\ path = "callback"
    /\ hpc = "test"
    /\ steps' = Append(steps, "split")
    /\ queue' = SplitParts(doc)
    /\ hpc' = "parts"
    /\ UNCHANGED <<path, doc, calls>>
    /\ UNCHANGED <<svars, rvars, cvars, fvars, lvars, jvars, uvars>>

\* _generate_summary_callback: one iteration of the for loop over parts,
\* reply_text(part, parse_mode='HTML')
CallbackSendPart ==
    /\ path = "callback"
    /\ hpc = "parts"
    /\ queue # <<>>
    /\ steps' = Append(steps, "reply_text")
    /\ \E o \in SendOutcomes("HTML") :
          /\ Send(Head(queue), "HTML", o)
          /\ AfterSend(o, IF Len(queue) = 1 THEN "done" ELSE "parts")
    /\ queue' = Tail(queue)
    /\ UNCHANGED <<path, doc>>
    /\ UNCHANGED <<svars, rvars, cvars, fvars, lvars, jvars, uvars>>

\* _generate_summary_callback: except BadRequest with "Can't parse entities":
\* summary = _strip_html_tags(summary)
CallbackFallback ==
    /\ path = "callback"
    /\ hpc = "fallback"
    /\ doc' = StripHtmlTags(doc)
    /\ steps' = Append(steps, "_strip_html_tags")
    /\ queue' = <<>>
    /\ hpc' = "plain_test"
    /\ UNCHANGED <<path, calls>>
    /\ UNCHANGED <<svars, rvars, cvars, fvars, lvars, jvars, uvars>>

\* where a delivery call of the except block that ended as o leaves the handler
AfterPlainSend(o, next) == hpc' = IF o = "ok" THEN next ELSE "raised"

\* _generate_summary_callback, retry: if len(summary) <= max_length: one
\* reply_text without parse_mode
CallbackPlainWhole ==
    /\ path = "callback"
    /\ hpc = "plain_test"
    /\ steps' = Append(steps, "reply_text")
    /\ \E o \in SendOutcomes("none") :
          /\ Send(doc, "none", o)
          /\ AfterPlainSend(o, "done")
    /\ UNCHANGED <<path, doc, queue>>
    /\ UNCHANGED <<svars, rvars, cvars, fvars, lvars, jvars, uvars>>

\* _generate_summary_callback, retry: else: the parts of the stripped text
CallbackPlainSplit ==
    /\ path = "callback"
    /\ hpc = "plain_test"
    /\ queue' = SplitParts(doc)
    /\ hpc' = "plain_parts"
    /\ UNCHANGED <<path, doc, calls, steps>>
    /\ UNCHANGED <<svars, rvars, cvars, fvars, lvars, jvars, uvars>>

\* _generate_summary_callback, retry: one iteration of the for loop over
\* parts, reply_text(part) without parse_mode
CallbackPlainPart ==
    /\ path = "callback"
    /\ hpc = "plain_parts"
    /\ queue # <<>>
    /\ steps' = Append(steps, "reply_text")
    /\ \E o \in SendOutcomes("none") :
          /\ Send(Head(queue), "none", o)
          /\ AfterPlainSend(o, IF Len(queue) = 1 THEN "done" ELSE "plain_parts")
    /\ queue' = Tail(queue)
    /\ UNCHANGED <<path, doc>>
    /\ UNCHANGED <<svars, rvars, cvars, fvars, lvars, jvars, uvars>>

\* send_scheduled_summaries, one user: create_summary_logger and the
\* generation; except Exception logs what they raise and goes on to the next
\* user
ScheduledGenerate ==
    /\ path = "scheduled"
    /\ hpc = "generate"
    /\ steps' = Append(steps, "generate_multi_channel_summary")
    /\ \/ hpc' = "send"
       \/ hpc' = "failed"
    /\ UNCHANGED <<path, doc, queue, calls>>
    /\ UNCHANGED <<svars, rvars, cvars, fvars, lvars, jvars, uvars>>

\* send_scheduled_summaries: one send_message with the header and the whole
\* summary, parse_mode='HTML'
ScheduledSend ==
    /\ path = "scheduled"
    /\ hpc = "send"
    /\ steps' = Append(steps, "send_message")
    /\ \E o \in SendOutcomes("HTML") :
          /\ Send(<<ScheduledHeader>> \o doc, "HTML", o)
          /\ hpc' = IF o = "ok" THEN "sent" ELSE "failed"
    /\ UNCHANGED <<path, doc, queue>>
    /\ UNCHANGED <<svars, rvars, cvars, fvars, lvars, jvars, uvars>>

\* send_scheduled_summaries: await self.db.update_last_summary(user_id)
ScheduledUpdate ==
    /\ path = "scheduled"
    /\ hpc = "sent"
    /\ steps' = Append(steps, "update_last_summary")
    /\ hpc' = "done"
    /\ UNCHANGED <<path, doc, queue, calls>>
    /\ UNCHANGED <<svars, rvars, cvars, fvars, lvars, jvars, uvars>>

NextHandler ==
    \/ CmdGenerate
    \/ CmdSend
    \/ CmdReturn
    \/ CallbackGenerate
    \/ CallbackFix
    \/ CallbackSendWhole
    \/ CallbackSplit
    \/ CallbackSendPart
    \/ CallbackFallback
    \/ CallbackPlainWhole
    \/ CallbackPlainSplit
    \/ CallbackPlainPart
    \/ ScheduledGenerate
    \/ ScheduledSend
    \/ ScheduledUpdate

(* ---------------------------------------------------------------------- *)
(* ChannelReader.read_channel_messages and Summarizer._format_messages     *)
(* ---------------------------------------------------------------------- *)

\* A text is held as [of, len]: the characters of message `of`, len of them
\* from the start.  A dict is a function on the keys it has.

\* the days argument of read_channel_messages
Days == 1

\* the longest text _format_messages leaves whole
MaxTextLen == 2000

\* most messages in a feed, most records in a list passed to _format_messages
MaxRecords == 2

\* lengths of the texts tried (0: a message without text)
TextLens == {0, 5, MaxTextLen, MaxTextLen + 1}

\* message.views is None
NoViews == -1

\* message.views of the messages tried
ViewCounts == {NoViews, 7}

\* message.date of the messages tried, in days before now
Ages == {0, 2}

\* values of the channel_username key tried
Handles == {"chA", "@chA", "https://t.me/chA/"}

\* msg.get(key, default)
Get(msg, key, default) == IF key \in DOMAIN msg THEN msg[key] ELSE default

\* the dict read_channel_messages appends for message m
MessageDict(m) ==
    [date       |-> <<"%Y-%m-%d %H:%M", m.age>>,
     text       |-> m.text,
     views      |-> IF m.views = NoViews THEN 0 ELSE m.views,
     message_id |-> m.id]

RECURSIVE ReadMessages(_)
\* the loop of read_channel_messages over the feed f: it stops at the first
\* message older than start_date and skips the messages without text
ReadMessages(f) ==
    IF f = <<>> THEN <<>>
    ELSE IF Head(f).age > Days THEN <<>>
    ELSE IF Head(f).text.len = 0 THEN ReadMessages(Tail(f))
    ELSE <<MessageDict(Head(f))>> \o ReadMessages(Tail(f))

\* channel_username.replace('https://t.me/', '').replace('http://t.me/', '')
\*   .replace('@', '').strip('/')
CleanUsername(h) ==
    IF h \in {"@chA", "https://t.me/chA/", "chA"} THEN "chA" ELSE h

\* no "[ССЫЛКА НА ПОСТ: ...]" line
NoLink == [kind |-> "none"]

\* "\n[ССЫЛКА НА ПОСТ: https://t.me/{clean_username}/{message_id}]"
PostLink(clean_username, message_id) ==
    [kind |-> "link", handle |-> clean_username, id |-> message_id]

\* Python truth of msg.get(key, ''): the key is there and its value is
\* neither 0 nor the empty string
Truthy(msg, key) ==
    /\ key \in DOMAIN msg
    /\ IF key = "message_id" THEN msg[key] # 0 ELSE msg[key] # ""

FormatEntryCutsAtLimit(i, msg, links) ==
    LET t    == Get(msg, "text", [of |-> 0, len |-> 0])
        body == IF t.len >= MaxTextLen
                THEN [of |-> t.of, len |-> MaxTextLen, marker |-> TRUE]
                ELSE [of |-> t.of, len |-> t.len, marker |-> FALSE]
    IN  [no    |-> i,
         date  |-> Get(msg, "date", "N/A"),
         views |-> Get(msg, "views", 0),
         body  |-> body,
         link  |-> IF links /\ Truthy(msg, "message_id") /\ Truthy(msg, "channel_username")
                   THEN PostLink(CleanUsername(msg.channel_username), msg.message_id)
                   ELSE NoLink]

\* the entry _format_messages appends for msg, the i-th of its list:
\* "{i}. [{date}] (👁 {views} просмотров)\n{text}{link_text}"
FormatEntry(i, msg, links) ==
    LET t    == Get(msg, "text", [of |-> 0, len |-> 0])
        body == IF t.len > MaxTextLen
                THEN [of |-> t.of, len |-> MaxTextLen, marker |-> TRUE]
                ELSE [of |-> t.of, len |-> t.len, marker |-> FALSE]
    IN  [no    |-> i,
         date  |-> Get(msg, "date", "N/A"),
         views |-> Get(msg, "views", 0),
         body  |-> body,
         link  |-> IF links /\ Truthy(msg, "message_id") /\ Truthy(msg, "channel_username")
                   THEN PostLink(CleanUsername(msg.channel_username), msg.message_id)
                   ELSE NoLink]

\* _format_messages(messages, include_links), as the list it joins
FormatMessages(ms, links) == [i \in 1..Len(ms) |-> FormatEntry(i, ms[i], links)]

\* no read or format call is going on
IdleFormat ==
    /\ fentry = "none"
    /\ feed = <<>>
    /\ recs = <<>>
    /\ include_links = FALSE
    /\ formatted = <<>>
    /\ fpc = "idle"

\* the feeds tried: ids descend and ages do not, as iter_messages yields them
FeedOf(n, lens, views, ages) ==
    [i \in 1..n |-> [id    |-> 100 - i,
                     age   |-> ages[i],
                     text  |-> [of |-> 100 - i, len |-> lens[i]],
                     views |-> views[i]]]

\* the dicts tried as arguments of _format_messages: those the reader builds,
\* with or without the keys message_id and channel_username
DictOf(i, len, with_id, handle) ==
    LET base == [date  |-> <<"%Y-%m-%d %H:%M", 0>>,
                 text  |-> [of |-> i, len |-> len],
                 views |-> 7]
        ided == IF with_id THEN base @@ [message_id |-> i] ELSE base
    IN  IF handle = "" THEN ided ELSE ided @@ [channel_username |-> handle]

InitFormat ==
    /\ formatted = <<>>
    /\ \/ /\ fentry = "read"
          /\ fpc = "read"
          /\ recs = <<>>
          /\ include_links = TRUE
          /\ \E n \in 0..MaxRecords :
                \E lens \in [1..n -> TextLens], views \in [1..n -> ViewCounts],
                   ages \in [1..n -> Ages] :
                    /\ \A i \in 1..(n - 1) : ages[i] <= ages[i + 1]
                    /\ feed = FeedOf(n, lens, views, ages)
       \/ /\ fentry = "format"
          /\ fpc = "format"
          /\ feed = <<>>
          /\ include_links \in BOOLEAN
          /\ \E n \in 0..MaxRecords :
                \E lens \in [1..n -> TextLens \ {0}], ids \in [1..n -> BOOLEAN],
                   handles \in [1..n -> Handles \cup {""}] :
                    recs = [i \in 1..n |-> DictOf(i, lens[i], ids[i], handles[i])]

\* read_multiple_channels: success, error, messages = read_channel_messages(
\* channel_username, days); an exception inside leaves the empty list
ReadChannel ==
    /\ fpc = "read"
    /\ \/ recs' = ReadMessages(feed)
       \/ recs' = <<>>
    /\ fpc' = "format"
    /\ UNCHANGED <<fentry, feed, include_links, formatted>>
    /\ UNCHANGED <<svars, rvars, cvars, hvars, lvars, jvars, uvars>>

\* messages_text = self._format_messages(selected_messages, include_links)
FormatCall ==
    /\ fpc = "format"
    /\ formatted' = FormatMessages(recs, include_links)
    /\ fpc' = "done"
    /\ UNCHANGED <<fentry, feed, recs, include_links>>
    /\ UNCHANGED <<svars, rvars, cvars, hvars, lvars, jvars, uvars>>

NextFormat ==
    \/ ReadChannel
    \/ FormatCall


(* ---------------------------------------------------------------------- *)
(* The per-request log file of a summary request                           *)
(* ---------------------------------------------------------------------- *)

\* logging.NOTSET, logging.DEBUG
NOTSET == 0

DEBUG == 10

\* the summary requests that can overlap on the event loop: the menu callback
\* _generate_summary_callback and one user of send_scheduled_summaries
Requests == {"callback", "scheduled"}

\* a record logged while request r runs, through request_logger or through
\* the summarizer's logger
Record(r, name) == [of |-> r, logger |-> name]

\* no summary request is going on
IdleLog ==
    /\ lpc = [r \in Requests |-> "idle"]
    /\ summarizer_level = NOTSET
    /\ client_level = NOTSET
    /\ summarizer_handlers = {}
    /\ client_handlers = {}
    /\ original_levels = [r \in Requests |-> <<NOTSET, NOTSET>>]
    /\ created = {}
    /\ closed = {}
    /\ files = [r \in Requests |-> {}]

\* both requests have their channels and are about to call
\* create_summary_logger; nothing sets the level of the two loggers before
InitLog ==
    /\ lpc = [r \in Requests |-> "create"]
    /\ summarizer_level = NOTSET
    /\ client_level = NOTSET
    /\ summarizer_handlers = {}
    /\ client_handlers = {}
    /\ original_levels = [r \in Requests |-> <<NOTSET, NOTSET>>]
    /\ created = {}
    /\ closed = {}
    /\ files = [r \in Requests |-> {}]

\* the await that follows position p of request r
AfterAwait(r, p) ==
    IF r = "callback"
    THEN CASE p = "create" -> "edit_message_text"
           [] p = "edit_message_text" -> "read_multiple_channels"
           [] p = "read_multiple_channels" -> "update_last_summary"
           [] OTHER -> "ended"
    ELSE CASE p = "create" -> "read_multiple_channels"
           [] p = "read_multiple_channels" -> "send_message"
           [] p = "send_message" -> "update_last_summary"
           [] OTHER -> "ended"

FinallyKeepsDebug(r) ==
    /\ summarizer_handlers' = summarizer_handlers \ {r}
    /\ client_handlers' = client_handlers \ {r}
    /\ UNCHANGED <<summarizer_level, client_level>>
    /\ closed' = closed \cup {r}
    /\ lpc' = [lpc EXCEPT ![r] = "ended"]

\* the finally block: removeHandler on both loggers, setLevel back to the
\* original levels, cleanup_summary_logger (removeHandler, file_handler.close())
Finally(r) ==
    /\ summarizer_handlers' = summarizer_handlers \ {r}
    /\ client_handlers' = client_handlers \ {r}
    /\ summarizer_level' = original_levels[r][1]
    /\ client_level' = original_levels[r][2]
    /\ closed' = closed \cup {r}
    /\ lpc' = [lpc EXCEPT ![r] = "ended"]

\* the request stays in its try block and reaches its next await
GoOn(r) ==
    /\ lpc' = [lpc EXCEPT ![r] = AfterAwait(r, lpc[r])]
    /\ UNCHANGED <<summarizer_level, client_level, summarizer_handlers,
                   client_handlers, closed>>

\* create_summary_logger(user_id, username), then the try block up to its
\* first await: the levels are read, both loggers set to DEBUG, the handler
\* added to both, request_logger.info.  The call passes two arguments to a
\* function declared with one (helpers.py:116), which is a TypeError; the
\* return of the call, which the try block is written for, is modelled too.
CreateLogger(r) ==
    /\ lpc[r] = "create"
    /\ \/ /\ created' = created \cup {r}
          /\ original_levels' = [original_levels EXCEPT
                                    ![r] = <<summarizer_level, client_level>>]
          /\ summarizer_level' = DEBUG
          /\ client_level' = DEBUG
          /\ summarizer_handlers' = summarizer_handlers \cup {r}
          /\ client_handlers' = client_handlers \cup {r}
          /\ files' = [files EXCEPT ![r] = @ \cup {Record(r, "request")}]
          /\ lpc' = [lpc EXCEPT ![r] = AfterAwait(r, "create")]
          /\ UNCHANGED closed
       \/ /\ lpc' = [lpc EXCEPT ![r] = "ended"]
          /\ UNCHANGED <<summarizer_level, client_level, summarizer_handlers,
                         client_handlers, original_levels, created, closed, files>>
    /\ UNCHANGED <<svars, rvars, cvars, hvars, fvars, jvars, uvars>>

\* an await of the try block other than read_multiple_channels returns or
\* raises: edit_message_text, send_message, update_last_summary.  After the
\* last one request_logger.info and the finally block follow.
Await(r) ==
    /\ lpc[r] \in {"edit_message_text", "send_message", "update_last_summary"}
    /\ \/ IF AfterAwait(r, lpc[r]) = "ended" THEN Finally(r) ELSE GoOn(r)
       \/ Finally(r)
    /\ UNCHANGED <<original_levels, created, files>>
    /\ UNCHANGED <<svars, rvars, cvars, hvars, fvars, jvars, uvars>>

\* the file of every handler now attached to the summarizer logger receives
\* the records generate_multi_channel_summary logs for request r
Emit(r) ==
    files' = [q \in Requests |->
                 IF q \in summarizer_handlers
                 THEN files[q] \cup {Record(r, "summarizer")}
                 ELSE files[q]]

\* await read_multiple_channels returns or raises; when it returns,
\* generate_multi_channel_summary runs without an await, logging to the
\* summarizer logger (logger.info, summarizer.py:34-130), and returns or raises
ReadAndGenerate(r) ==
    /\ lpc[r] = "read_multiple_channels"
    /\ \/ /\ Emit(r)
          /\ \/ GoOn(r)
             \/ Finally(r)
       \/ /\ UNCHANGED files
          /\ Finally(r)
    /\ UNCHANGED <<original_levels, created>>
    /\ UNCHANGED <<svars, rvars, cvars, hvars, fvars, jvars, uvars>>

NextLog ==
    \E r \in Requests :
        \/ CreateLogger(r)
        \/ Await(r)
        \/ ReadAndGenerate(r)


(* ---------------------------------------------------------------------- *)
(* SummaryBot.send_scheduled_summaries                                     *)
(* ---------------------------------------------------------------------- *)

\* most users get_users_for_summary returns
MaxUsers == 3

\* last_summary of a user before the job, and CURRENT_TIMESTAMP of the job
Previous == "previous"

Now == "now"

\* the job is not running
IdleJob ==
    /\ users = <<>>
    /\ ui = 1
    /\ jpc = "idle"
    /\ last_summary = <<>>
    /\ model_calls = <<>>
    /\ processed = <<>>
    /\ finished = <<>>
    /\ success_count = 0
    /\ error_count = 0

\* users = await self.db.get_users_for_summary(): the rows of the users that
\* are due, in the order the query returns them, each user with or without
\* channels
InitJob ==
    /\ \E n \in 0..MaxUsers :
          \E ids \in [1..n -> 1..n], chans \in [1..n -> BOOLEAN] :
              /\ \A i, j \in 1..n : i # j => ids[i] # ids[j]
              /\ users = [i \in 1..n |-> [user_id |-> ids[i], channels |-> chans[i]]]
              /\ last_summary = [u \in 1..n |-> Previous]
              /\ model_calls = [u \in 1..n |-> 0]
    /\ ui = 1
    /\ jpc = "loop"
    /\ processed = <<>>
    /\ finished = <<>>
    /\ success_count = 0
    /\ error_count = 0

\* user_id of the iteration going on
User == users[ui].user_id

FailEndsJob ==
    /\ error_count' = error_count + 1
    /\ finished' = Append(finished, "error")
    /\ UNCHANGED ui
    /\ jpc' = "done"
    /\ UNCHANGED <<last_summary, success_count>>

\* except Exception as e: logger.error(...); error_count += 1, and the loop
\* goes on with the next user
Fail ==
    /\ error_count' = error_count + 1
    /\ finished' = Append(finished, "error")
    /\ ui' = ui + 1
    /\ jpc' = "loop"
    /\ UNCHANGED <<last_summary, success_count>>

\* the iteration stays in its try block
Step(next) ==
    /\ jpc' = next
    /\ UNCHANGED <<ui, finished, last_summary, success_count, error_count>>

\* the next user of the list: channels = await self.db.get_user_channels(
\* user_id); if not channels: continue
UserChannels ==
    /\ jpc = "loop"
    /\ ui <= Len(users)
    /\ processed' = Append(processed, User)
    /\ \/ /\ users[ui].channels
          /\ Step("create")
       \/ /\ ~users[ui].channels
          /\ finished' = Append(finished, "skipped")
          /\ ui' = ui + 1
          /\ UNCHANGED <<jpc, last_summary, success_count, error_count>>
       \/ Fail
    /\ UNCHANGED <<users, model_calls>>
    /\ UNCHANGED <<svars, rvars, cvars, hvars, fvars, lvars, uvars>>

\* create_summary_logger(user_id, f"{username}_scheduled") and the try block
\* up to its first await.  The call passes two arguments to a function
\* declared with one (helpers.py:116), a TypeError the except clause catches;
\* the return of the call is modelled too.
UserCreateLogger ==
    /\ jpc = "create"
    /\ \/ Step("read")
       \/ Fail
    /\ UNCHANGED <<users, model_calls, processed>>
    /\ UNCHANGED <<svars, rvars, cvars, hvars, fvars, lvars, uvars>>

\* channels_messages = await self.channel_reader.read_multiple_channels(...)
UserRead ==
    /\ jpc = "read"
    /\ \/ Step("generate")
       \/ Fail
    /\ UNCHANGED <<users, model_calls, processed>>
    /\ UNCHANGED <<svars, rvars, cvars, hvars, fvars, lvars, uvars>>

\* summary = self.summarizer.generate_multi_channel_summary(...)
UserGenerate ==
    /\ jpc = "generate"
    /\ model_calls' = [model_calls EXCEPT ![User] = @ + 1]
    /\ \/ Step("send")
       \/ Fail
    /\ UNCHANGED <<users, processed>>
    /\ UNCHANGED <<svars, rvars, cvars, hvars, fvars, lvars, uvars>>

\* await self.application.bot.send_message(chat_id=user_id, ...)
UserSend ==
    /\ jpc = "send"
    /\ \/ Step("update")
       \/ Fail
    /\ UNCHANGED <<users, model_calls, processed>>
    /\ UNCHANGED <<svars, rvars, cvars, hvars, fvars, lvars, uvars>>

\* await self.db.update_last_summary(user_id); success_count += 1
UserUpdate ==
    /\ jpc = "update"
    /\ \/ /\ last_summary' = [last_summary EXCEPT ![User] = Now]
          /\ success_count' = success_count + 1
          /\ finished' = Append(finished, "sent")
          /\ ui' = ui + 1
          /\ jpc' = "loop"
          /\ UNCHANGED error_count
       \/ Fail
    /\ UNCHANGED <<users, model_calls, processed>>
    /\ UNCHANGED <<svars, rvars, cvars, hvars, fvars, lvars, uvars>>

\* the for loop is over: logger.info("Scheduled summaries job complete ...")
JobComplete ==
    /\ jpc = "loop"
    /\ ui > Len(users)
    /\ jpc' = "done"
    /\ UNCHANGED <<users, ui, last_summary, model_calls, processed, finished,
                   success_count, error_count>>
    /\ UNCHANGED <<svars, rvars, cvars, hvars, fvars, lvars, uvars>>

NextJob ==
    \/ UserChannels
    \/ UserCreateLogger
    \/ UserRead
    \/ UserGenerate
    \/ UserSend
    \/ UserUpdate
    \/ JobComplete


(* ---------------------------------------------------------------------- *)
(* The channel-name input state: handle_callback and handle_text_message   *)
(* ---------------------------------------------------------------------- *)

\* the users that send updates
UserIds == {"u1", "u2"}

\* the texts users send
Texts == {"@chA", " chA ", "chB"}

\* update.message.text.strip().lstrip('@')
ChannelUsername(t) ==
    CASE t = "@chA"  -> "chA"
      [] t = " chA " -> "chA"
      [] OTHER       -> t

\* user_id in self.bot.user_states and
\* self.bot.user_states[user_id] == "waiting_channel_name"
Waiting(u) ==
    u \in DOMAIN user_states /\ user_states[u] = "waiting_channel_name"

\* the dict d without the key u
DelKey(d, u) == [k \in DOMAIN d \ {u} |-> d[k]]

\* the dict d with d[u] = v
SetKey(d, u, v) == [k \in DOMAIN d \cup {u} |-> IF k = u THEN v ELSE d[k]]

\* no handle_text_message call of the user is under way
NoInput == [at |-> "none", channel_username |-> ""]

NoUpdate == [user |-> "", kind |-> "none", data |-> "", answered |-> FALSE]

\* nothing has been dispatched
IdleInput ==
    /\ user_states = <<>>
    /\ db_channels = <<>>
    /\ input_pc = <<>>
    /\ update = NoUpdate

\* self.user_states = {}; no user tracks a channel yet
InitInput ==
    /\ user_states = [u \in {} |-> "waiting_channel_name"]
    /\ db_channels = [u \in UserIds |-> {}]
    /\ input_pc = [u \in UserIds |-> NoInput]
    /\ update = NoUpdate

\* handle_callback for a callback query of user u with data a: await
\* query.answer() returns or raises; when it returns, the branch of a runs
Callback(u, a, answered) ==
    update' = [user |-> u, kind |-> "callback", data |-> a, answered |-> answered]

\* handle_callback, action == "input_channel":
\* self.bot.user_states[user_id] = "waiting_channel_name"
InputChannel(u) ==
    /\ \/ /\ Callback(u, "input_channel", TRUE)
          /\ user_states' = SetKey(user_states, u, "waiting_channel_name")
       \/ /\ Callback(u, "input_channel", FALSE)
          /\ UNCHANGED user_states
    /\ UNCHANGED <<db_channels, input_pc>>
    /\ UNCHANGED <<svars, rvars, cvars, hvars, fvars, lvars, jvars>>

CancelInputClearsAll(u) ==
    /\ \/ /\ Callback(u, "cancel_input", TRUE)
          /\ user_states' = [k \in {} |-> "waiting_channel_name"]
       \/ /\ Callback(u, "cancel_input", FALSE)
          /\ UNCHANGED user_states
    /\ UNCHANGED <<db_channels, input_pc>>
    /\ UNCHANGED <<svars, rvars, cvars, hvars, fvars, lvars, jvars>>

\* handle_callback, action == "cancel_input":
\* if user_id in self.bot.user_states: del self.bot.user_states[user_id]
CancelInput(u) ==
    /\ \/ /\ Callback(u, "cancel_input", TRUE)
          /\ user_states' = DelKey(user_states, u)
       \/ /\ Callback(u, "cancel_input", FALSE)
          /\ UNCHANGED user_states
    /\ UNCHANGED <<db_channels, input_pc>>
    /\ UNCHANGED <<svars, rvars, cvars, hvars, fvars, lvars, jvars>>

\* handle_callback, a branch that does not touch user_states, as "menu_main"
MenuCallback(u) ==
    /\ \E answered \in BOOLEAN : Callback(u, "menu_main", answered)
    /\ UNCHANGED <<user_states, db_channels, input_pc>>
    /\ UNCHANGED <<svars, rvars, cvars, hvars, fvars, lvars, jvars>>

\* handle_text_message for the text t of user u, up to its first await: in
\* the waiting branch the state is deleted and reply_text("Проверяю ...")
\* awaited, otherwise the help text is sent
TextMessage(u, t) ==
    /\ input_pc[u] = NoInput
    /\ update' = [user |-> u, kind |-> "text", data |-> t, answered |-> FALSE]
    /\ IF Waiting(u)
       THEN /\ user_states' = DelKey(user_states, u)
            /\ input_pc' = [input_pc EXCEPT ![u] =
                                [at |-> "reply_text",
                                 channel_username |-> ChannelUsername(t)]]
       ELSE UNCHANGED <<user_states, input_pc>>
    /\ UNCHANGED db_channels
    /\ UNCHANGED <<svars, rvars, cvars, hvars, fvars, lvars, jvars>>

\* the handler of user u goes on to position p, or returns (p = "none")
Resume(u, p) ==
    /\ input_pc' = [input_pc EXCEPT ![u] =
                       IF p = "none" THEN NoInput ELSE [@ EXCEPT !.at = p]]
    /\ update' = NoUpdate
    /\ UNCHANGED user_states

\* msg = await update.message.reply_text(...) returns or raises
TextReply(u) ==
    /\ input_pc[u].at = "reply_text"
    /\ \/ Resume(u, "check_channel_access")
       \/ Resume(u, "none")
    /\ UNCHANGED db_channels
    /\ UNCHANGED <<svars, rvars, cvars, hvars, fvars, lvars, jvars>>

\* can_access, access_msg = await check_channel_access(channel_username);
\* if not can_access: edit_text and return.  Then channel_info = await
\* get_channel_info(channel_username), which returns or raises.
TextAccess(u) ==
    /\ input_pc[u].at = "check_channel_access"
    /\ \/ Resume(u, "add_channel")
       \/ Resume(u, "none")
    /\ UNCHANGED db_channels
    /\ UNCHANGED <<svars, rvars, cvars, hvars, fvars, lvars, jvars>>

\* added = await self.bot.db.add_channel(user_id, channel_username, ...):
\* the row is inserted, or it is there already (IntegrityError, False), or
\* the call raises; then the handler reports and returns
TextAdd(u) ==
    /\ input_pc[u].at = "add_channel"
    /\ \/ db_channels' = [db_channels EXCEPT ![u] = @ \cup {input_pc[u].channel_username}]
       \/ UNCHANGED db_channels
    /\ Resume(u, "none")
    /\ UNCHANGED <<svars, rvars, cvars, hvars, fvars, lvars, jvars>>

NextInput ==
    \E u \in UserIds :
        \/ InputChannel(u)
        \/ CancelInput(u)
        \/ MenuCallback(u)
        \/ \E t \in Texts : TextMessage(u, t)
        \/ TextReply(u)
        \/ TextAccess(u)
        \/ TextAdd(u)


(* ---------------------------------------------------------------------- *)
(* Specifications                                                          *)
(* ---------------------------------------------------------------------- *)

Init == InitSummarizer /\ IdleRepair /\ IdleChunker /\ IdleHandler /\ IdleFormat /\ IdleLog /\ IdleJob /\ IdleInput

Next == NextSummarizer

\* one summary generation
Spec == Init /\ [][Next]_vars

InitR == IdleSummarizer /\ InitRepair /\ IdleChunker /\ IdleHandler /\ IdleFormat /\ IdleLog /\ IdleJob /\ IdleInput

NextR == FixCall

\* one fix_html_tags call
SpecRepair == InitR /\ [][NextR]_vars

InitC == IdleSummarizer /\ IdleRepair /\ InitChunker /\ IdleHandler /\ IdleFormat /\ IdleLog /\ IdleJob /\ IdleInput

NextC == NextChunker

\* one send_long_message call
SpecChunk == InitC /\ [][NextC]_vars

InitD == IdleSummarizer /\ IdleRepair /\ IdleChunker /\ InitHandler /\ IdleFormat /\ IdleLog /\ IdleJob /\ IdleInput

NextD == NextHandler \/ NextChunker

\* one summary request, from the generation to the end of its handler
SpecDeliver == InitD /\ [][NextD]_vars

InitF == IdleSummarizer /\ IdleRepair /\ IdleChunker /\ IdleHandler /\ InitFormat /\ IdleLog /\ IdleJob /\ IdleInput

NextF == NextFormat

\* the messages of one channel read and formatted, or one _format_messages call
SpecFormat == InitF /\ [][NextF]_vars

InitL == IdleSummarizer /\ IdleRepair /\ IdleChunker /\ IdleHandler /\ IdleFormat /\ InitLog /\ IdleJob /\ IdleInput

NextL == NextLog

\* a menu summary request and a scheduled one, interleaved at their awaits
SpecLog == InitL /\ [][NextL]_vars

InitJ == IdleSummarizer /\ IdleRepair /\ IdleChunker /\ IdleHandler /\ IdleFormat /\ IdleLog /\ InitJob /\ IdleInput

NextJ == NextJob

\* one run of the scheduled job
SpecJob == InitJ /\ [][NextJ]_vars

InitU == IdleSummarizer /\ IdleRepair /\ IdleChunker /\ IdleHandler /\ IdleFormat /\ IdleLog /\ IdleJob /\ InitInput

NextU == NextInput

\* the updates of two users that concern the channel-name input
SpecInput == InitU /\ [][NextU]_vars

(* ---------------------------------------------------------------------- *)
(* Properties of the summarizer                                            *)
(* ---------------------------------------------------------------------- *)

RECURSIVE CallBound(_)
\* most _select_top_posts invocations a reduction of n records can make when
\* every batch keeps at most MaxCount records
CallBound(n) ==
    IF n <= BaseLimit THEN 1
    ELSE LET c == (n + ChunkSize - 1) \div ChunkSize
         IN  c + CallBound(MaxCount * c)

RECURSIVE DepthBound(_)
\* deepest _hierarchical_selection frame such a reduction can reach
DepthBound(n) ==
    IF n <= BaseLimit THEN 0
    ELSE LET c == (n + ChunkSize - 1) \div ChunkSize
         IN  1 + DepthBound(MaxCount * c)

InSelection == pc \in {"select", "synth"} \/ (entry = "reduce" /\ pc = "done")

\* C1: _hierarchical_selection on N >= 0 records never raises, makes at most
\* CallBound(N) ranker invocations over at most DepthBound(N) recursive
\* levels, each frame after the first is shorter than the input, and the
\* list it returns has at most 10 records, whatever the model calls did.
HierarchicalSelectionTerminates ==
    /\ entry = "reduce" => pc # "raised"
    /\ InSelection =>
          LET n == Len(channels[ci].msgs)
          IN  /\ rankerCalls <= CallBound(n)
              /\ depth <= DepthBound(n)
              /\ depth > 0 => Len(level) < n
    /\ pc = "synth" => Len(candidates) <= MaxCount
    /\ (entry = "reduce" /\ pc = "done") => Len(result.posts) <= MaxCount

\* a reduction that needed two recursive levels has returned 10 records
HierarchicalSelectionTwoLevels ==
    /\ entry = "reduce"
    /\ pc = "done"
    /\ depth = 2
    /\ rankerCalls = 7
    /\ Len(result.posts) = MaxCount

\* C2: a _select_top_posts invocation on at most max_count records returned
\* its input unchanged and issued no model call.
RankerNoOp ==
    (rankerCalls > 0 /\ Len(lastRank.input) <= MaxCount) =>
        /\ lastRank.res = lastRank.input
        /\ lastRank.calls = 0

\* the ranker has been invoked on exactly max_count records
RankerNoOpAtLimit ==
    /\ rankerCalls > 0
    /\ Len(lastRank.input) = MaxCount
    /\ lastRank.res = lastRank.input
    /\ modelCalls = 0

NoValidNumber(numbers, n) == \A i \in 1..Len(numbers) : ~(1 <= numbers[i] /\ numbers[i] <= n)

RankerFellBack ==
    /\ rankerCalls > 0
    /\ Len(lastRank.input) > MaxCount
    /\ \/ lastRank.out.kind \in FailKinds
       \/ /\ lastRank.out.kind = "ok"
          /\ NoValidNumber(lastRank.out.numbers, Len(lastRank.input))

\* C3: a _select_top_posts invocation on more than k records whose model call
\* failed, or answered without any integer in 1..len(messages), returned
\* exactly the first k input records in order, and raised nothing.
RankerFallback ==
    RankerFellBack =>
        /\ lastRank.res = SubSeq(lastRank.input, 1, MaxCount)
        /\ ~lastRank.raised
        /\ entry = "reduce" => pc # "raised"

\* the model answered a ranking call with a body without 'choices'
RankerFallbackMalformed ==
    /\ RankerFellBack
    /\ lastRank.out.kind = "nochoices"
    /\ Len(lastRank.input) = BaseLimit
    /\ lastRank.res = Iota(MaxCount)

\* C4: in generate_multi_channel_summary a failed synthesis call of one
\* source raises nothing and leaves the error notice naming that source as
\* the source's section.
SynthesisFailureContained ==
    (entry = "multi" /\ lastSynth.out \in FailKinds) =>
        /\ pc # "raised"
        /\ \E i \in 1..Len(summaries) :
              summaries[i] = Section(lastSynth.src, ErrorText(lastSynth.src, lastSynth.out))

AllEmpty == \A i \in 1..Len(channels) : channels[i].msgs = <<>>

\* C5: empty input causes no model call: generate_summary on an empty list
\* returns the no-messages text, generate_multi_channel_summary on an empty
\* mapping the no-channels text, and on a mapping of empty lists one
\* empty-state section per source.
EmptyInputNoModelCall ==
    (entry \in {"single", "multi"} /\ AllEmpty) =>
        /\ modelCalls = 0
        /\ pc # "raised"
        /\ pc = "done" =>
              IF entry = "single"
              THEN result = NoMessagesText(channels[1].name)
              ELSE IF channels = <<>>
              THEN result = NoChannelsText
              ELSE result = Joined([i \in 1..Len(channels) |->
                                       Section(channels[i].name, NoNewText)])

\* a multi-channel request over two sources without messages has returned
EmptyInputAllSourcesEmpty ==
    /\ entry = "multi"
    /\ Len(channels) = 2
    /\ AllEmpty
    /\ pc = "done"
    /\ Len(result.sections) = 2

RECURSIVE IsOrderedSubsequence(_, _)
\* s can be had from t by deleting elements: the elements of s are elements
\* of t at increasing positions
IsOrderedSubsequence(s, t) ==
    IF s = <<>> THEN TRUE
    ELSE IF t = <<>> THEN FALSE
    ELSE IF Head(s) = Head(t) THEN IsOrderedSubsequence(Tail(s), Tail(t))
    ELSE IsOrderedSubsequence(s, Tail(t))

\* C14: whatever the model answers, the list a _select_top_posts invocation
\* returns is an ordered subsequence of its input (same relative order, no
\* record twice), and so is the list _hierarchical_selection returns.
SelectionIsOrderedSubsequence ==
    /\ rankerCalls > 0 => IsOrderedSubsequence(lastRank.res, lastRank.input)
    /\ (pc \in {"synth", "done"} /\ frames # <<>>) =>
           IsOrderedSubsequence(candidates, frames[1].input)

\* the model calls issued for source i are ranking calls followed by at most
\* one synthesis call, all of them next to each other in the log
CallsOfSourceTogether(i) ==
    \A a, b \in 1..Len(callLog) :
        (a < b /\ callLog[b].src = i) =>
            /\ callLog[a].src <= i
            /\ callLog[a].src = i => callLog[a].kind = "rank"

\* C15: generate_multi_channel_summary handles the sources one after another
\* in mapping order: no model call for a source is issued before the last
\* call for the source before it, within a source every ranking call precedes
\* the single synthesis call, and the sections of the joined document are in
\* the order of the mapping.
SourcesProcessedInOrder ==
    entry = "multi" =>
        /\ \A i \in 1..Len(channels) : CallsOfSourceTogether(i)
        /\ \A a \in 1..Len(callLog) : callLog[a].src <= ci
        /\ pc \in {"loop", "select", "synth"} => Len(summaries) = ci - 1
        /\ \A i \in 1..Len(summaries) : summaries[i].header = channels[i].name
        /\ (pc = "done" /\ channels # <<>>) =>
              /\ result = Joined(summaries)
              /\ Len(summaries) = Len(channels)

\* two sources with more than 30 records each have been ranked, synthesized
\* and joined
TwoSourcesRankedAndJoined ==
    /\ entry = "multi"
    /\ pc = "done"
    /\ Len(channels) = 2
    /\ \A i \in 1..2 :
          /\ Len(channels[i].msgs) > BaseLimit
          /\ \E a, b \in 1..Len(callLog) :
                /\ a < b
                /\ callLog[a] = [src |-> i, kind |-> "rank"]
                /\ callLog[b] = [src |-> i, kind |-> "synth"]

\* the frame at position i of frames has made all its invocations
FrameComplete(i) == i < Len(frames) \/ pc # "select"

\* n / size rounded up
CeilDiv(n, size) == IF n % size = 0 THEN n \div size ELSE n \div size + 1

\* C17: a _hierarchical_selection level with n <= 30 records makes exactly
\* one _select_top_posts invocation, a level with n > 30 makes exactly
\* ceil(n / 30) and then recurses; on 45 records that is 2 invocations at
\* depth 0 and 1 at depth 1, 3 in all, and at most 10 records returned.
RankerInvocationsPerLevel ==
    /\ \A i \in 1..Len(frames) :
          LET n == Len(frames[i].input)
          IN  /\ i < Len(frames) => n > 30
              /\ FrameComplete(i) =>
                    Len(frames[i].ranks) = IF n <= 30 THEN 1 ELSE CeilDiv(n, 30)
    /\ (entry = "reduce" /\ pc = "done" /\ Len(channels[1].msgs) = 45) =>
          /\ Len(frames) = 2
          /\ Len(frames[1].ranks) = 2
          /\ Len(frames[2].ranks) = 1
          /\ rankerCalls = 3
          /\ Len(result.posts) <= 10

\* _hierarchical_selection has returned for 45 records
FortyFiveRecordsThreeInvocations ==
    /\ entry = "reduce"
    /\ pc = "done"
    /\ Len(channels[1].msgs) = 45
    /\ depth = 1
    /\ rankerCalls = 3

\* every model call of the current _hierarchical_selection failed or answered
\* without a usable number
AllRankingFell ==
    \A i \in 1..Len(frames) :
        \A k \in 1..Len(frames[i].ranks) :
            frames[i].ranks[k].calls = 1 => frames[i].ranks[k].fell

\* C18: when every ranking model call fails or answers nothing usable,
\* _hierarchical_selection on N >= 10 records returns exactly the first 10
\* input records in order; the ranking raises nothing, so the synthesis call
\* is issued on these records, and an exception can only come from it.
AllRankingFailedKeepsFirstTen ==
    (frames # <<>> /\ Len(frames[1].input) >= 10 /\ AllRankingFell) =>
        /\ ~lastRank.raised
        /\ pc # "select" => candidates = SubSeq(frames[1].input, 1, 10)
        /\ (entry # "reduce" /\ pc \in {"loop", "done", "raised"}) =>
              /\ callLog[Len(callLog)].kind = "synth"
              /\ lastSynth.out = "ok" =>
                    \/ result = SummaryText(lastSynth.src, SubSeq(frames[1].input, 1, 10))
                    \/ \E s \in 1..Len(summaries) :
                          summaries[s] = Section(lastSynth.src,
                              SummaryText(lastSynth.src, SubSeq(frames[1].input, 1, 10)))

\* a source of more than 30 records whose ranking calls, two levels of them,
\* all failed has been synthesized
AllRankingFailedSynthesized ==
    /\ entry = "multi"
    /\ pc = "done"
    /\ Len(frames) = 2
    /\ AllRankingFell
    /\ \E k \in 1..Len(frames[1].ranks) : frames[1].ranks[k].fell
    /\ frames[2].ranks[1].fell
    /\ lastSynth.out = "ok"
    /\ candidates = SubSeq(frames[1].input, 1, 10)

\* the inputs, and the results, of the invocations of a frame one after another
RankInputs(f) == Flatten([k \in 1..Len(f.ranks) |-> f.ranks[k].input])

RankResults(f) == Flatten([k \in 1..Len(f.ranks) |-> f.ranks[k].res])

\* C19: a level of more than 30 records is cut into consecutive chunks of 30
\* (the last may be smaller), every record in exactly one chunk; the ranker
\* runs once per chunk in order, and the next level's input is the results of
\* the chunks one after another in chunk order.
ChunksPartitionLevel ==
    \A i \in 1..Len(frames) :
        LET f == frames[i]
            n == Len(f.input)
        IN  n > 30 =>
              /\ \A k \in 1..Len(f.ranks) :
                    /\ Len(f.ranks[k].input) = Min(30, n - 30 * (k - 1))
                    /\ Len(f.ranks[k].input) > 0
              /\ RankInputs(f) = SubSeq(f.input, 1, Len(RankInputs(f)))
              /\ (i = Len(frames) /\ pc = "select") => selected = RankResults(f)
              /\ i < Len(frames) =>
                    /\ RankInputs(f) = f.input
                    /\ frames[i + 1].input = RankResults(f)

\* a level was cut into three chunks, the last one smaller, and their results
\* were passed to the next level
ThreeChunksConcatenated ==
    /\ Len(frames) >= 2
    /\ Len(frames[1].ranks) = 3
    /\ Len(frames[1].ranks[3].input) \in 1..29
    /\ frames[2].input = RankResults(frames[1])
    /\ Len(frames[2].input) > 20

\* the records of input at the numbers of the answer that are in
\* 1..Len(input), in the answer's order, at most k of them
NamedRecords(input, numbers, k) ==
    LET valid == SelectSeq(numbers, LAMBDA x : x \in 1..Len(input))
    IN  [i \in 1..Min(k, Len(valid)) |-> input[valid[i]]]

\* the last invocation issued its model call and the call succeeded
RankedByModel ==
    /\ rankerCalls > 0
    /\ lastRank.calls = 1
    /\ lastRank.out.kind = "ok"
    /\ Len(lastRank.input) > MaxCount

RecordsKept ==
    /\ rankerCalls > 0 => Range(lastRank.res) \subseteq Range(lastRank.input)
    /\ frames # <<>> =>
          /\ \E k \in 1..Len(channels) : frames[1].input = channels[k].msgs
          /\ \A i \in 1..Len(frames) :
                Range(frames[i].input) \subseteq Range(frames[1].input)
          /\ pc # "select" => Range(candidates) \subseteq Range(frames[1].input)
    /\ (entry = "reduce" /\ pc = "done") =>
          Range(result.posts) \subseteq Range(channels[1].msgs)

\* C21: every record in the output of _select_top_posts and of
\* _hierarchical_selection is one of the input records, and no step of the
\* reduction changes the caller's input lists.
SelectionKeepsRecords ==
    /\ []RecordsKept
    /\ [][channels' = channels]_vars

\* a second-level selection over records of the second and third chunk has
\* returned records of the caller's list
SecondLevelKeepsRecords ==
    /\ entry = "reduce"
    /\ pc = "done"
    /\ depth >= 1
    /\ \E i \in 1..Len(result.posts) : result.posts[i] > ChunkSize
    /\ Range(result.posts) \subseteq Range(channels[1].msgs)

(* ---------------------------------------------------------------------- *)
(* Properties of the reader and the formatter                              *)
(* ---------------------------------------------------------------------- *)

\* C22 (as stated): every record the channel reader produces carries the
\* sequence id and the source handle, so with links requested the formatter
\* emits a permalink line for every record it is given.
ReadRecordsGetPermalink ==
    (fentry = "read" /\ fpc = "done") =>
        /\ \A i \in 1..Len(recs) :
              {"message_id", "channel_username"} \subseteq DOMAIN recs[i]
        /\ \A i \in 1..Len(formatted) : formatted[i].link # NoLink

\* what _format_messages must return for the list ms
FormatRuleHolds(ms, out) ==
    /\ Len(out) = Len(ms)
    /\ \A i \in 1..Len(ms) :
          /\ out[i].no = i
          /\ out[i].body.of = ms[i].text.of
          /\ ms[i].text.len <= MaxTextLen =>
                /\ out[i].body.len = ms[i].text.len
                /\ ~out[i].body.marker
          /\ ms[i].text.len > MaxTextLen =>
                /\ out[i].body.len = MaxTextLen
                /\ out[i].body.marker

\* C23: _format_messages numbers the entries 1..n by position, emits a body
\* of at most 2000 characters unchanged and a longer one as its first 2000
\* characters followed by '...', and changes no input record.
FormatNumbersAndTruncates ==
    /\ [](fpc = "done" => FormatRuleHolds(recs, formatted))
    /\ [][fpc = "format" => recs' = recs]_vars

\* a list with a body of exactly 2000 characters and a longer one, formatted
LimitAndLongerFormatted ==
    /\ fentry = "format"
    /\ fpc = "done"
    /\ \E i, j \in 1..Len(recs) :
          /\ recs[i].text.len = MaxTextLen
          /\ ~formatted[i].body.marker
          /\ recs[j].text.len > MaxTextLen
          /\ formatted[j].body.marker
          /\ formatted[j].no = j


(* ---------------------------------------------------------------------- *)
(* Properties of the per-request log file                                  *)
(* ---------------------------------------------------------------------- *)

\* request r takes its last step
Ends(r) == lpc[r] # "ended" /\ lpc'[r] = "ended"

\* C24: after a summary request has ended, whether it succeeded or raised,
\* its log handler is attached to neither shared logger and is closed, and
\* at its end both loggers have the levels the request found when it set up
\* its logging.
RequestLeavesLoggersClean ==
    /\ [](\A r \in Requests :
             lpc[r] = "ended" =>
                 /\ r \notin summarizer_handlers
                 /\ r \notin client_handlers
                 /\ r \in created => r \in closed)
    /\ [][\A r \in Requests :
             /\ (lpc[r] = "create" /\ r \in created') =>
                   original_levels'[r] = <<summarizer_level, client_level>>
             /\ (Ends(r) /\ r \in created) =>
                   <<summarizer_level', client_level'>> = original_levels[r]
             /\ (Ends(r) /\ r \notin created) =>
                   UNCHANGED <<summarizer_level, client_level>>]_vars

\* a request has set up its logging, raised before the generation and ended,
\* before the other request started
RaisedRequestCleaned ==
    \E r \in Requests :
        /\ lpc[r] = "ended"
        /\ r \in created
        /\ r \in closed
        /\ files[r] = {Record(r, "request")}
        /\ summarizer_level = NOTSET
        /\ \A q \in Requests \ {r} : lpc[q] = "create"

FirstUsers(n) == [i \in 1..n |-> users[i].user_id]

\* an iteration is going on
InIteration == jpc \notin {"idle", "loop", "done"}

\* C29: in one run of send_scheduled_summaries every user the query returned
\* is processed exactly once, in list order; an exception while a user is
\* processed leaves that user's last_summary unchanged and does not keep the
\* later users from being processed; a user without channels is skipped
\* without a model call and without a change of last_summary.
EveryUserOnceInOrder ==
    /\ [](/\ jpc # "idle" =>
                processed = FirstUsers(IF InIteration THEN ui ELSE ui - 1)
          /\ jpc = "done" =>
                /\ processed = FirstUsers(Len(users))
                /\ Len(finished) = Len(users)
          /\ \A i \in 1..Len(finished) :
                /\ finished[i] = "skipped" <=> ~users[i].channels /\ finished[i] # "error"
                /\ finished[i] # "sent" => last_summary[users[i].user_id] = Previous
                /\ finished[i] = "skipped" => model_calls[users[i].user_id] = 0
                /\ model_calls[users[i].user_id] <= 1)
    /\ [][error_count' # error_count =>
             /\ last_summary' = last_summary
             /\ ui' = ui + 1
             /\ jpc' = "loop"]_vars

\* a run over three users has ended: the delivery to the first raised, the
\* second has no channels, the third got its summary
FailedSkippedSent ==
    /\ jpc = "done"
    /\ Len(users) = 3
    /\ finished = <<"error", "skipped", "sent">>
    /\ model_calls[users[1].user_id] = 1
    /\ last_summary[users[1].user_id] = Previous
    /\ last_summary[users[3].user_id] = Now
    /\ users[1].user_id > users[3].user_id


(* ---------------------------------------------------------------------- *)
(* Properties of the channel-name input state                              *)
(* ---------------------------------------------------------------------- *)

\* the step dispatches an update of user u
EventOf(u) == update' # NoUpdate /\ update'.user = u

\* C30: the input state of a user changes only through that user's own
\* events: an 'input_channel' callback sets it to waiting, a 'cancel_input'
\* callback clears it, a text message while waiting clears it before the
\* access check; a text message of a user who is not waiting adds no channel
\* and changes no state; no event of one user changes another user's state.
InputStateIsPerUser ==
    [][\A u \in UserIds :
          /\ Waiting(u)' # Waiting(u) =>
                /\ EventOf(u)
                /\ \/ update'.data = "input_channel" /\ Waiting(u)'
                   \/ update'.data = "cancel_input" /\ ~Waiting(u)'
                   \/ update'.kind = "text" /\ Waiting(u) /\ ~Waiting(u)'
          /\ (EventOf(u) /\ update'.kind = "callback" /\ update'.answered) =>
                /\ update'.data = "input_channel" => Waiting(u)'
                /\ update'.data = "cancel_input" => ~Waiting(u)'
          /\ (EventOf(u) /\ update'.kind = "text" /\ Waiting(u)) =>
                /\ ~Waiting(u)'
                /\ input_pc'[u].at = "reply_text"
                /\ db_channels' = db_channels
          /\ (EventOf(u) /\ update'.kind = "text" /\ ~Waiting(u)) =>
                UNCHANGED <<user_states, db_channels, input_pc>>
          /\ (input_pc[u] = NoInput /\ input_pc'[u] # NoInput) =>
                EventOf(u) /\ update'.kind = "text" /\ Waiting(u)
          /\ db_channels'[u] # db_channels[u] =>
                /\ input_pc[u].at = "add_channel"
                /\ db_channels'[u] = db_channels[u] \cup {input_pc[u].channel_username}
          /\ EventOf(u) =>
                \A v \in UserIds \ {u} :
                    /\ Waiting(v)' = Waiting(v)
                    /\ db_channels'[v] = db_channels[v]
                    /\ input_pc'[v] = input_pc[v]]_vars

\* one user has added a channel through the text input and is no longer
\* waiting, while the other user, who asked for the input and sent no text,
\* is still waiting
OneAddedOtherStillWaiting ==
    \E u, v \in UserIds :
        /\ u # v
        /\ db_channels[u] = {"chA"}
        /\ input_pc[u] = NoInput
        /\ ~Waiting(u)
        /\ update = NoUpdate
        /\ Waiting(v)
        /\ db_channels[v] = {}


(* ---------------------------------------------------------------------- *)
(* Properties of send_long_message                                         *)
(* ---------------------------------------------------------------------- *)

\* C6: every block send_long_message passes to a delivery call has at most
\* 4096 characters.
ChunkWithinBound ==
    \A i \in 1..Len(sent) : sent[i].len <= MaxLength

Prefix(s, t) == Len(s) <= Len(t) /\ \A i \in 1..Len(s) : s[i] = t[i]

\* the sections of the blocks passed to delivery calls so far, in order
Delivered == Flatten([i \in 1..Len(sent) |-> sent[i].ids])

\* C7: for a document longer than the bound the blocks passed to delivery
\* calls hold whole sections only, in the document's order without gap or
\* repetition; nothing read so far is lost, and when send_long_message
\* returns every section has been passed exactly once.
SectionsOnceInOrder ==
    (cpc # "idle" /\ TextLen(parts) > MaxLength) =>
        /\ Prefix(Delivered, Ids(parts))
        /\ cpc = "loop" =>
              Delivered \o current_part.ids = SubSeq(Ids(parts), 1, partNo - 1)
        /\ cpc = "done" => Delivered = Ids(parts)

\* a three-section document has been delivered in two blocks
SectionsInTwoBlocks ==
    /\ cpc = "done"
    /\ TextLen(parts) > MaxLength
    /\ Len(parts) = 3
    /\ Len(sent) = 2
    /\ Len(sent[1].ids) = 2


\* C16: for the empty document, whose split is one empty section,
\* send_long_message passes no block to a delivery call.
EmptyDocumentNoDelivery ==
    (cpc # "idle" /\ TextLen(parts) = 0) => sent = <<>>

(* ---------------------------------------------------------------------- *)
(* Properties of the handlers                                              *)
(* ---------------------------------------------------------------------- *)

\* the delivery calls of the handler that Telegram accepted
Accepted == SelectSeq(calls, LAMBDA c : c.ok)

DeliveryCalls == {"reply_text", "send_message"}

\* the handing of the document to send_long_message, or the handler's own
\* split by length
ChunkerCalls == {"send_long_message", "split"}

\* C13: on every path, before any delivery call is made the text has gone
\* through fix_html_tags and the document has been handed to the chunker.
RepairedAndChunkedBeforeDelivery ==
    /\ (calls # <<>> \/ sent # <<>>) =>
          /\ "fix_html_tags" \in Range(steps)
          /\ ChunkerCalls \cap Range(steps) # {}
    /\ \A k \in 1..Len(steps) :
          steps[k] \in DeliveryCalls =>
              /\ \E i \in 1..(k - 1) : steps[i] = "fix_html_tags"
              /\ \E i \in 1..(k - 1) : steps[i] \in ChunkerCalls

\* the number of places of the text t that hold the token tok
Count(t, tok) == Cardinality({i \in 1..Len(t) : t[i] = tok})

\* the accepted delivery calls whose text holds the section with header h
DeliveriesOf(h) == {i \in 1..Len(Accepted) : Count(Accepted[i].text, h) > 0}

UpdateOnlyAfterDelivery ==
    /\ "update_last_summary" \in Range(steps) => (Accepted # <<>> \/ sent # <<>>)
    /\ hpc \in {"raised", "failed"} => "update_last_summary" \notin Range(steps)


(* ---------------------------------------------------------------------- *)
(* Properties of fix_html_tags                                             *)
(* ---------------------------------------------------------------------- *)

\* C8: fix_html_tags returns a text with as many opening as closing link
\* tags (zero of each included) unchanged.
BalancedTextUnchanged ==
    (rpc = "done" /\ CountOpening(text) = CountClosing(text)) => fixed = text

\* a text with two opening and two closing tags has been returned
BalancedTwoLinks ==
    /\ rpc = "done"
    /\ CountOpening(text) = 2
    /\ CountClosing(text) = 2
    /\ fixed = text

RECURSIVE Unmatched(_, _, _)
\* opening link tags of t from position i on that no later closing tag
\* closes, given the number of tags open before i
Unmatched(t, i, open) ==
    IF i > Len(t) THEN open
    ELSE LET e == MatchOpenEnd(t, i)
         IN  IF e > 0 THEN Unmatched(t, e + 1, open + 1)
             ELSE IF t[i] = CloseTag
             THEN Unmatched(t, i + 1, IF open > 0 THEN open - 1 ELSE 0)
             ELSE Unmatched(t, i + 1, open)

\* C9: the text fix_html_tags returns for any input holds no opening link
\* tag without a matching closing tag after it.
NoUnmatchedOpeningTag ==
    rpc = "done" => Unmatched(fixed, 1, 0) = 0

\* C10: for a text with o opening and c closing link tags, o > c,
\* fix_html_tags returns the text followed by exactly o - c closing tags,
\* not the plain-text downgrade.
MissingClosingsAppended ==
    (rpc = "done" /\ CountOpening(text) > CountClosing(text)) =>
        /\ fixed = text \o Closings(CountOpening(text) - CountClosing(text))
        /\ Disclaimer \notin Range(fixed)

\* three opening tags and one closing tag: two closing tags were appended
ThreeOpenOneClose ==
    /\ rpc = "done"
    /\ CountOpening(text) = 3
    /\ CountClosing(text) = 1
    /\ fixed = text \o <<CloseTag, CloseTag>>

\* the tokens of t at positions i .. i + Len(s) - 1 are s
OccursAt(s, t, i) == i + Len(s) - 1 <= Len(t) /\ SubSeq(t, i, i + Len(s) - 1) = s

\* C11: for a text with more closing than opening link tags, fix_html_tags
\* returns a text that begins with the disclaimer, holds the URL of every
\* link of the input as " (URL)", and holds no opening or closing link tag.
DowngradeIsPlainText ==
    (rpc = "done" /\ CountClosing(text) > CountOpening(text)) =>
        /\ fixed # <<>>
        /\ fixed[1] = Disclaimer
        /\ \A k \in 1..CountOpening(text) :
              LET m   == FindOpening(text, 1)[k]
                  url == SubSeq(text, m.start + 3, m.end - 2)
              IN  \E i \in 1..Len(fixed) :
                      OccursAt(<<" (">> \o url \o <<")">>, fixed, i)
        /\ CountOpening(fixed) = 0
        /\ CountClosing(fixed) = 0

====
